---------------------------- MODULE Spec2Model ----------------------------
(***************************************************************************)
(* errsum: error-output summariser.  A model of the signature normaliser   *)
(* (getErrorSignature), the grouping engine (groupErrors, similarity,      *)
(* mergeSimilarGroups) and of the properties stated about them.            *)
(*                                                                         *)
(* A JavaScript string is a sequence of one-character strings, so that the *)
(* regular expressions of the source are modelled character by character.  *)
(***************************************************************************)
EXTENDS Integers, Sequences, FiniteSets, TLC

VARIABLES
  pc,        \* position of the caller: which call has returned
  error,     \* the record handed to getErrorSignature
  sig,       \* getErrorSignature(error)
  sig2,      \* getErrorSignature of error with its message replaced by sig
  errors,    \* the record sequence handed to groupErrors
  opts,      \* the options handed to groupErrors
  groups,    \* the groups handed to mergeSimilarGroups
  threshold, \* the threshold handed to mergeSimilarGroups, <<num, den>>
  merged,    \* what mergeSimilarGroups returned
  str1,      \* first argument of similarity
  str2,      \* second argument of similarity
  sim,       \* similarity(str1, str2), <<num, den>>
  simRev,    \* similarity(str2, str1), <<num, den>>
  input,     \* the text handed to detectType and parseErrors
  forcedType, \* the forcedType handed to parseErrors
  type,      \* the type of the running scan of parseErrors
  lastIndex, \* lastIndex of the regex of every pattern, counted from 0
  scans,     \* how many times parseErrors has been entered
  detected,  \* what detectType returned
  stats,     \* what getStats returned
  argTop,    \* the value of --top on the command line
  exitCode,  \* the code of process.exit, -1 while the process runs
  calls      \* how many calls of parseErrors callers have made

vars == <<pc, error, sig, sig2, errors, opts, groups, threshold, merged,
          str1, str2, sim, simRev, input, forcedType, type, lastIndex,
          scans, detected, stats, argTop, exitCode, calls>>

\* An absent (undefined) message or code: falsy, like the empty string.
None == <<>>

\* An absent file, type or severity; these fields are never taken apart, so
\* they are strings of this language, and the absent one is the falsy one.
Absent == ""

(***************************************************************************)
(* Character classes of the regular expressions.                           *)
(***************************************************************************)
Digit == {"0", "1", "2", "3", "4", "5", "6", "7", "8", "9"}

LowerLetters ==
  <<"a", "b", "c", "d", "e", "f", "g", "h", "i", "j", "k", "l", "m",
    "n", "o", "p", "q", "r", "s", "t", "u", "v", "w", "x", "y", "z">>

UpperLetters ==
  <<"A", "B", "C", "D", "E", "F", "G", "H", "I", "J", "K", "L", "M",
    "N", "O", "P", "Q", "R", "S", "T", "U", "V", "W", "X", "Y", "Z">>

Range(f) == {f[k] : k \in DOMAIN f}

Letter == Range(LowerLetters) \cup Range(UpperLetters)

\* \w
WordChar == Letter \cup Digit \cup {"_"}

\* [\w.-]
SegChar == WordChar \cup {".", "-"}

\* The back quote (U+0060) cannot be written in a string of this language;
\* the character is this atom.
BackQuote == "backquote"

\* the quote class of the patterns: single quote, double quote, back quote
QuoteChar == {"'", "\"", BackQuote}

\* [0-9a-f] under the i flag
HexChar == Digit \cup {"a", "b", "c", "d", "e", "f", "A", "B", "C", "D", "E", "F"}

\* \s, and the characters String.prototype.trim removes
SpaceChar == {" ", "\t", "\n", "\r", "\f"}

\* the lower-case letter of every upper-case one
LowerOf ==
  [c \in Range(UpperLetters) |->
     LowerLetters[CHOOSE k \in 1..26 : UpperLetters[k] = c]]

\* String.prototype.toLowerCase on one character
ToLowerChar(c) == IF c \in DOMAIN LowerOf THEN LowerOf[c] ELSE c

toLowerCase(s) == [k \in 1..Len(s) |-> ToLowerChar(s[k])]

\* The element of a one-element set.  Once({F(v) : v \in {value}}) is
\* const v = value; F(v): the value is computed once and then named.
Once(S) == CHOOSE r \in S : TRUE

Min(S) == CHOOSE x \in S : \A y \in S : x <= y

\* Where a greedy run of characters of class C that starts at i ends: the
\* first index >= i whose character is not in C, Len(s) + 1 if there is none.
RunEnd(s, i, C) ==
  LET stops == {k \in i..Len(s) : s[k] \notin C}
  IN IF stops = {} THEN (IF i > Len(s) THEN i ELSE Len(s) + 1) ELSE Min(stops)

\* The same for a run of characters outside C ([^...]).
RunEndNot(s, i, C) ==
  LET stops == {k \in i..Len(s) : s[k] \in C}
  IN IF stops = {} THEN (IF i > Len(s) THEN i ELSE Len(s) + 1) ELSE Min(stops)

At(s, i, C) == i >= 1 /\ i <= Len(s) /\ s[i] \in C

\* \b between s[i-1] and s[i]
WordBoundary(s, i) == At(s, i - 1, WordChar) # At(s, i, WordChar)

(***************************************************************************)
(* The patterns of getErrorSignature.  XEnd(s, i) is the index after the   *)
(* match of pattern X that starts at index i, and 0 when X does not match  *)
(* at i.  Every quantifier of these patterns is greedy and is followed     *)
(* either by optional parts or by a character outside the class it         *)
(* repeats, so the first match the backtracking finds is the greedy one.   *)
(***************************************************************************)

\* (?:\/[\w.-]+)+ from j: the index after the last /segment, j if none
RECURSIVE PosixSegsEnd(_, _)
PosixSegsEnd(s, j) ==
  IF At(s, j, {"/"}) /\ At(s, j + 1, SegChar)
    THEN Once({PosixSegsEnd(s, e) : e \in {RunEnd(s, j + 1, SegChar)}})
    ELSE j

\* /['"`]?(?:\/[\w.-]+)+(?:\/[\w.-]+)?['"`]?/
PosixPathEnd(s, i) ==
  LET j == IF At(s, i, QuoteChar) THEN i + 1 ELSE i
      e == PosixSegsEnd(s, j)
  IN IF e = j THEN 0
     ELSE IF At(s, e, QuoteChar) THEN e + 1 ELSE e

\* (?:[A-Za-z]:\\[\w.-]+)+ from j: the index after the last drive segment
RECURSIVE DriveSegsEnd(_, _)
DriveSegsEnd(s, j) ==
  IF At(s, j, Letter) /\ At(s, j + 1, {":"}) /\ At(s, j + 2, {"\\"})
       /\ At(s, j + 3, SegChar)
    THEN Once({DriveSegsEnd(s, e) : e \in {RunEnd(s, j + 3, SegChar)}})
    ELSE j

\* /['"`]?(?:[A-Za-z]:\\[\w.-]+)+(?:\\[\w.-]+)?['"`]?/
WinPathEnd(s, i) ==
  LET j == IF At(s, i, QuoteChar) THEN i + 1 ELSE i
      d == DriveSegsEnd(s, j)
      e == IF At(s, d, {"\\"}) /\ At(s, d + 1, SegChar)
             THEN RunEnd(s, d + 1, SegChar) ELSE d
  IN IF d = j THEN 0
     ELSE IF At(s, e, QuoteChar) THEN e + 1 ELSE e

\* the word w at index i, letters compared under the i flag
HasWordAt(s, i, w) ==
  /\ i + Len(w) - 1 <= Len(s)
  /\ \A k \in 1..Len(w) : ToLowerChar(s[i + k - 1]) = w[k]

\* \s*\d+ from k: the index after the digits, 0 if there is no digit
SpacesDigitsEnd(s, k) ==
  LET d == RunEnd(s, k, SpaceChar)
      e == RunEnd(s, d, Digit)
  IN IF e > d THEN e ELSE 0

\* /\b(?:line|col|column)\s*\d+/gi, the alternatives tried in that order
LocWordEnd(s, i) ==
  IF ~ (At(s, i, WordChar) /\ WordBoundary(s, i)) THEN 0
  ELSE IF HasWordAt(s, i, <<"l", "i", "n", "e">>)
    THEN SpacesDigitsEnd(s, i + 4)
  ELSE IF HasWordAt(s, i, <<"c", "o", "l">>) /\ SpacesDigitsEnd(s, i + 3) > 0
    THEN SpacesDigitsEnd(s, i + 3)
  ELSE IF HasWordAt(s, i, <<"c", "o", "l", "u", "m", "n">>)
    THEN SpacesDigitsEnd(s, i + 6)
  ELSE 0

\* /:\d+:\d+/g
LocPairEnd(s, i) ==
  LET d == RunEnd(s, i + 1, Digit)
      e == RunEnd(s, d + 1, Digit)
  IN IF At(s, i, {":"}) /\ d > i + 1 /\ At(s, d, {":"}) /\ e > d + 1
       THEN e ELSE 0

\* the {1,50} of the quoted-span pattern
MaxNameLen == 50

\* the quoted-span pattern with the closing quote bound to the opening one
QuotedEndSameQuote(s, i) ==
  LET k == RunEndNot(s, i + 1, QuoteChar)
  IN IF At(s, i, QuoteChar) /\ At(s, k, {s[i]})
          /\ k - (i + 1) >= 1 /\ k - (i + 1) <= MaxNameLen
       THEN k + 1 ELSE 0

\* /['"`]([^'"`]{1,50})['"`]/g
QuotedEnd(s, i) ==
  LET k == RunEndNot(s, i + 1, QuoteChar)
  IN IF At(s, i, QuoteChar) /\ At(s, k, QuoteChar)
          /\ k - (i + 1) >= 1 /\ k - (i + 1) <= MaxNameLen
       THEN k + 1 ELSE 0

\* /\b0x[0-9a-f]+\b/gi
HexEnd(s, i) ==
  LET e == RunEnd(s, i + 2, HexChar)
  IN IF At(s, i, {"0"}) /\ WordBoundary(s, i) /\ At(s, i + 1, {"x", "X"})
          /\ e > i + 2 /\ WordBoundary(s, e)
       THEN e ELSE 0

\* the {5,} of the id pattern
MinIdDigits == 5

\* /\b\d{5,}\b/g
IdEnd(s, i) ==
  LET e == RunEnd(s, i, Digit)
  IN IF At(s, i, Digit) /\ WordBoundary(s, i) /\ e - i >= MinIdDigits
          /\ WordBoundary(s, e)
       THEN e ELSE 0

MatchEnd(rule, s, i) ==
  CASE rule = "posixPath" -> PosixPathEnd(s, i)
    [] rule = "winPath"   -> WinPathEnd(s, i)
    [] rule = "locWord"   -> LocWordEnd(s, i)
    [] rule = "locPair"   -> LocPairEnd(s, i)
    [] rule = "quoted"    -> QuotedEnd(s, i)
    [] rule = "hex"       -> HexEnd(s, i)
    [] rule = "id"        -> IdEnd(s, i)

PathToken == <<"<", "p", "a", "t", "h", ">">>
LocToken  == <<"<", "l", "o", "c", ">">>
NameToken == <<"'", "<", "n", "a", "m", "e", ">", "'">>
HexToken  == <<"<", "h", "e", "x", ">">>
IdToken   == <<"<", "i", "d", ">">>

Replacement(rule) ==
  CASE rule = "posixPath" -> PathToken
    [] rule = "winPath"   -> PathToken
    [] rule = "locWord"   -> LocToken
    [] rule = "locPair"   -> <<":">> \o LocToken
    [] rule = "quoted"    -> NameToken
    [] rule = "hex"       -> HexToken
    [] rule = "id"        -> IdToken

\* String.prototype.replace with a g pattern, from index i on: the scan
\* tries each index in turn, so the next match starts at the least index
\* >= i where the pattern matches; the text before it is copied, the match
\* is replaced and the scan goes on after it (matches do not overlap, and
\* no pattern here matches the empty string).
RECURSIVE ReplaceFrom(_, _, _)
ReplaceFrom(rule, s, i) ==
  Once({IF starts = {} THEN SubSeq(s, i, Len(s))
        ELSE Once({SubSeq(s, i, m - 1) \o Replacement(rule)
                     \o Once({ReplaceFrom(rule, s, e) : e \in {MatchEnd(rule, s, m)}}) :
                   m \in {Min(starts)}}) :
        starts \in {{k \in i..Len(s) : MatchEnd(rule, s, k) > 0}}})

replace(s, rule) == ReplaceFrom(rule, s, 1)

\* String.prototype.trim
trim(s) ==
  Once({IF keep = {} THEN <<>>
        ELSE SubSeq(s, Min(keep), CHOOSE x \in keep : \A y \in keep : y <= x) :
        keep \in {{k \in 1..Len(s) : s[k] \notin SpaceChar}}})

\* Normalise with the quoted-span replacement moved before the path ones
NormaliseQuotedFirst(message) ==
  Once({replace(s6, "id") :
    s6 \in {replace(s5, "hex") :
    s5 \in {replace(s4, "locPair") :
    s4 \in {replace(s3, "locWord") :
    s3 \in {replace(s2, "winPath") :
    s2 \in {replace(s1, "posixPath") :
    s1 \in {replace(message, "quoted")}}}}}}})

\* the chain of replacements of getErrorSignature, before code and trim
Normalise(message) ==
  Once({replace(s6, "id") :
    s6 \in {replace(s5, "hex") :
    s5 \in {replace(s4, "quoted") :
    s4 \in {replace(s3, "locPair") :
    s3 \in {replace(s2, "locWord") :
    s2 \in {replace(s1, "winPath") :
    s1 \in {replace(message, "posixPath")}}}}}}})

\* getErrorSignature with the message trimmed before the code is prepended
getErrorSignatureTrimFirst(e) ==
  Once({IF e.code # None THEN <<"[">> \o e.code \o <<"]", " ">> \o s ELSE s :
        s \in {trim(Normalise(e.message))}})

getErrorSignature(e) ==
  Once({trim(tagged) :
    tagged \in {IF e.code # None THEN <<"[">> \o e.code \o <<"]", " ">> \o s ELSE s :
    s \in {Normalise(e.message)}}})

(***************************************************************************)
(* The regular expressions of PATTERNS and detectType.  A pattern is the   *)
(* sequence of its parts in the order they are written; the matcher is the *)
(* backtracking one of RegExp.prototype.exec: the parts still to match are *)
(* tried left to right at one index, and where a part offers a choice the  *)
(* choices are tried in the order of their priority and the first one that *)
(* lets all the rest match is taken.                                       *)
(***************************************************************************)
\* the characters . does not match and ^ and $ look at under the m flag
LineTerminator == {"\n", "\r"}

\* characters of the sources that are not ASCII, as atoms: U+25CF, U+2715,
\* U+2716 and U+203A
Bullet == "bullet"

Cross == "cross"

HeavyCross == "heavycross"

Chevron == "chevron"

\* [...]: one character of the set C
Class(C) == [op |-> "class", set |-> C, neg |-> FALSE]

\* [^...]: one character outside the set C
NotClass(C) == [op |-> "class", set |-> C, neg |-> TRUE]

\* .
Dot == NotClass(LineTerminator)

\* [\s\S]
AnyChar == NotClass({})

\* c+ (min 1) and c* (min 0) for a class c, c+? and c*? when not greedy
Many(c, min, greedy) == [op |-> "many", class |-> c, min |-> min, greedy |-> greedy]

\* (?:body)?
Opt(body) == [op |-> "opt", body |-> body]

\* (?:a|b|...), alts the sequence of the alternatives
Alt(alts) == [op |-> "alt", alts |-> alts]

\* (body), the n-th capturing group
Group(n, body) == [op |-> "group", n |-> n, body |-> body]

\* the end of group n that was entered at index from
Close(n, from) == [op |-> "close", n |-> n, from |-> from]

\* ^ and $, with or without the m flag
Bol(multiline) == [op |-> "bol", multiline |-> multiline]

Eol(multiline) == [op |-> "eol", multiline |-> multiline]

\* the characters of str, one after the other
Lit(str) == [op |-> "lit", str |-> str, ignoreCase |-> FALSE]

\* the same under the i flag: each letter in either case
LitI(str) == [op |-> "lit", str |-> str, ignoreCase |-> TRUE]

\* the text of s at index i is str, letter case aside when ignoreCase
LitAt(r, s, i) ==
  /\ i + Len(r.str) - 1 <= Len(s)
  /\ \A k \in 1..Len(r.str) :
       IF r.ignoreCase THEN ToLowerChar(s[i + k - 1]) = ToLowerChar(r.str[k])
                       ELSE s[i + k - 1] = r.str[k]

\* where the longest run of characters of class c that starts at i ends
Extent(c, s, i) == IF c.neg THEN RunEndNot(s, i, c.set) ELSE RunEnd(s, i, c.set)

Matches(c, ch) == (ch \in c.set) # c.neg

\* the most capturing groups a pattern has (the rust one)
NumGroups == 6

\* no group has taken part in the match; <<from, to>> is the text of a
\* group, from index from up to index to - 1
NoGroups == [n \in 1..NumGroups |-> <<0, 0>>]

\* the part a pattern goes on with, "end" when nothing is left of it
Op(rs) == IF rs = <<>> THEN "end" ELSE rs[1].op

\* The ways the parts rs match one after the other from index i of s on,
\* caps being the groups closed so far, as a set of <<key, index after the
\* match, groups>>.  key lists the choices made on the way, each numbered
\* in the order the backtracking tries them (an alternative by its place,
\* a repetition by the index it stops at, the farthest first when greedy
\* and the nearest first when lazy).  No repeated part of the patterns can
\* match the empty string, so no iteration has to be checked for progress.
RECURSIVE Run(_, _, _, _, _)
Run(rs, s, i, caps, key) ==
  CASE Op(rs) = "end" -> {<<key, i, caps>>}
    [] Op(rs) = "class" /\ i <= Len(s) /\ Matches(rs[1], s[i]) ->
         Run(Tail(rs), s, i + 1, caps, key)
    [] Op(rs) = "lit" /\ LitAt(rs[1], s, i) ->
         Run(Tail(rs), s, i + Len(rs[1].str), caps, key)
    [] Op(rs) = "bol"
         /\ (i = 1 \/ (rs[1].multiline /\ At(s, i - 1, LineTerminator))) ->
         Run(Tail(rs), s, i, caps, key)
    [] Op(rs) = "eol"
         /\ (i = Len(s) + 1 \/ (rs[1].multiline /\ At(s, i, LineTerminator))) ->
         Run(Tail(rs), s, i, caps, key)
    [] Op(rs) = "group" ->
         Run(rs[1].body \o <<Close(rs[1].n, i)>> \o Tail(rs), s, i, caps, key)
    [] Op(rs) = "close" ->
         Run(Tail(rs), s, i, [caps EXCEPT ![rs[1].n] = <<rs[1].from, i>>], key)
    [] Op(rs) = "opt" ->
         UNION {Run(IF k = 1 THEN r[1].body \o Tail(r) ELSE Tail(r), t, j, c,
                    Append(ky, k)) :
                k \in {1, 2}, r \in {rs}, t \in {s}, j \in {i}, c \in {caps},
                ky \in {key}}
    [] Op(rs) = "alt" ->
         UNION {Run(r[1].alts[k] \o Tail(r), t, j, c, Append(ky, k)) :
                k \in DOMAIN rs[1].alts, r \in {rs}, t \in {s}, j \in {i},
                c \in {caps}, ky \in {key}}
    [] Op(rs) = "many" ->
         UNION {Run(Tail(r), t, k, c,
                    Append(ky, IF r[1].greedy THEN 0 - k ELSE k)) :
                k \in (i + rs[1].min)..Extent(rs[1].class, s, i), r \in {rs},
                t \in {s}, c \in {caps}, ky \in {key}}
    [] OTHER -> {}

\* the choices of key a are tried before those of key b: they differ
\* first at a choice where a took what is tried earlier
TriedBefore(a, b) ==
  \E n \in 1..Len(a) :
    /\ n <= Len(b) /\ a[n] < b[n]
    /\ \A m \in 1..(n - 1) : a[m] = b[m]

\* the match the backtracking comes to first
First(all) == CHOOSE r \in all : \A q \in all : q = r \/ TriedBefore(r[1], q[1])

\* RegExp.prototype.exec with lastIndex (from 0): the match at the least
\* index at or after it, as [index, end, groups] with index and end from 1
\* and end the index after the match; index 0 stands for null
exec(regex, text, start) ==
  Once({IF all = {} THEN [index |-> 0, end |-> 0, groups |-> NoGroups]
        ELSE Once({[index |-> r[1][1], end |-> r[2], groups |-> r[3]] :
                   r \in {First(all)}}) :
        all \in {UNION {Run(rs, s, k, NoGroups, <<k>>) :
                        k \in (start + 1)..(Len(text) + 1),
                        rs \in {regex}, s \in {text}}}})

\* RegExp.prototype.test of a pattern without the g flag
test(regex, s) == exec(regex, s, 0).index # 0

\* match[n]: the text of group n, None (undefined) if it took no part
MatchGroup(m, s, n) ==
  IF m.groups[n][1] = 0 THEN None
  ELSE SubSeq(s, m.groups[n][1], m.groups[n][2] - 1)

\* match[0]
MatchText(m, s) == SubSeq(s, m.index, m.end - 1)

\* \d+, \s+, \s*, (.+), (.+?) and (\d+) as they recur in the patterns
Digits == Many(Class(Digit), 1, TRUE)

Spaces == Many(Class(SpaceChar), 1, TRUE)

OptSpaces == Many(Class(SpaceChar), 0, TRUE)

\* error|warning
ErrorOrWarning ==
  Alt(<< <<Lit(<<"e", "r", "r", "o", "r">>)>>,
         <<Lit(<<"w", "a", "r", "n", "i", "n", "g">>)>> >>)

\* /^(.+?)[:(](\d+)[,:](\d+)\)?[: -]+error\s+(TS\d+):\s*(.+)$/gm
TypescriptRegex ==
  <<Bol(TRUE), Group(1, <<Many(Dot, 1, FALSE)>>), Class({":", "("}),
    Group(2, <<Digits>>), Class({",", ":"}), Group(3, <<Digits>>),
    Opt(<<Class({")"})>>), Many(Class({":", " ", "-"}), 1, TRUE),
    Lit(<<"e", "r", "r", "o", "r">>), Spaces,
    Group(4, <<Lit(<<"T", "S">>), Digits>>), Class({":"}), OptSpaces,
    Group(5, <<Many(Dot, 1, TRUE)>>), Eol(TRUE)>>

\* /^(?:(.+?):)?(\d+):(\d+)\s+(error|warning)\s+(.+?)\s+(\S+)$/gm
EslintRegex ==
  <<Bol(TRUE), Opt(<<Group(1, <<Many(Dot, 1, FALSE)>>), Class({":"})>>),
    Group(2, <<Digits>>), Class({":"}), Group(3, <<Digits>>), Spaces,
    Group(4, <<ErrorOrWarning>>), Spaces, Group(5, <<Many(Dot, 1, FALSE)>>),
    Spaces, Group(6, <<Many(NotClass(SpaceChar), 1, TRUE)>>), Eol(TRUE)>>

\* /^\s*(?:U+25CF|U+2715|U+2716|FAIL)\s+(.+?)(?:\s+U+203A\s+(.+))?$/gm
JestRegex ==
  <<Bol(TRUE), OptSpaces,
    Alt(<< <<Class({Bullet})>>, <<Class({Cross})>>, <<Class({HeavyCross})>>,
           <<Lit(<<"F", "A", "I", "L">>)>> >>),
    Spaces, Group(1, <<Many(Dot, 1, FALSE)>>),
    Opt(<<Spaces, Class({Chevron}), Spaces, Group(2, <<Many(Dot, 1, TRUE)>>)>>),
    Eol(TRUE)>>

\* /^(?:\s*File\s+"(.+?)",\s*line\s*(\d+)(?:,\s*in\s+(\S+))?[\s\S]*?)?
\*   ^\s*(\w+Error|\w+Exception):\s*(.+)$/gm
PythonRegex ==
  <<Bol(TRUE),
    Opt(<<OptSpaces, Lit(<<"F", "i", "l", "e">>), Spaces, Class({"\""}),
          Group(1, <<Many(Dot, 1, FALSE)>>), Lit(<<"\"", ",">>), OptSpaces,
          Lit(<<"l", "i", "n", "e">>), OptSpaces, Group(2, <<Digits>>),
          Opt(<<Class({","}), OptSpaces, Lit(<<"i", "n">>), Spaces,
                Group(3, <<Many(NotClass(SpaceChar), 1, TRUE)>>)>>),
          Many(AnyChar, 0, FALSE)>>),
    Bol(TRUE), OptSpaces,
    Group(4, <<Alt(<< <<Many(Class(WordChar), 1, TRUE),
                        Lit(<<"E", "r", "r", "o", "r">>)>>,
                      <<Many(Class(WordChar), 1, TRUE),
                        Lit(<<"E", "x", "c", "e", "p", "t", "i", "o", "n">>)>> >>)>>),
    Class({":"}), OptSpaces, Group(5, <<Many(Dot, 1, TRUE)>>), Eol(TRUE)>>

\* /^(error|warning)\[(E\d+)\]:\s*(.+)\n\s*-->\s*(.+?):(\d+):(\d+)/gm
RustRegex ==
  <<Bol(TRUE), Group(1, <<ErrorOrWarning>>), Class({"["}),
    Group(2, <<Class({"E"}), Digits>>), Lit(<<"]", ":">>), OptSpaces,
    Group(3, <<Many(Dot, 1, TRUE)>>), Class({"\n"}), OptSpaces,
    Lit(<<"-", "-", ">">>), OptSpaces, Group(4, <<Many(Dot, 1, FALSE)>>),
    Class({":"}), Group(5, <<Digits>>), Class({":"}), Group(6, <<Digits>>)>>

\* /^(.+?\.go):(\d+):(\d+):\s*(.+)$/gm
GoRegex ==
  <<Bol(TRUE), Group(1, <<Many(Dot, 1, FALSE), Lit(<<".", "g", "o">>)>>),
    Class({":"}), Group(2, <<Digits>>), Class({":"}), Group(3, <<Digits>>),
    Class({":"}), OptSpaces, Group(4, <<Many(Dot, 1, TRUE)>>), Eol(TRUE)>>

\* /^(.+?\.[ch](?:pp|xx)?):(\d+):(\d+):\s*(error|warning):\s*(.+)$/gm
GccRegex ==
  <<Bol(TRUE),
    Group(1, <<Many(Dot, 1, FALSE), Class({"."}), Class({"c", "h"}),
               Opt(<<Alt(<< <<Lit(<<"p", "p">>)>>, <<Lit(<<"x", "x">>)>> >>)>>)>>),
    Class({":"}), Group(2, <<Digits>>), Class({":"}), Group(3, <<Digits>>),
    Class({":"}), OptSpaces, Group(4, <<ErrorOrWarning>>), Class({":"}),
    OptSpaces, Group(5, <<Many(Dot, 1, TRUE)>>), Eol(TRUE)>>

\* /^(?:\[?(ERROR|Error|error|ERR|FATAL|Fatal|fatal)\]?:?\s*)(.+)$/gm
GenericRegex ==
  <<Bol(TRUE), Opt(<<Class({"["})>>),
    Group(1, <<Alt(<< <<Lit(<<"E", "R", "R", "O", "R">>)>>,
                      <<Lit(<<"E", "r", "r", "o", "r">>)>>,
                      <<Lit(<<"e", "r", "r", "o", "r">>)>>,
                      <<Lit(<<"E", "R", "R">>)>>,
                      <<Lit(<<"F", "A", "T", "A", "L">>)>>,
                      <<Lit(<<"F", "a", "t", "a", "l">>)>>,
                      <<Lit(<<"f", "a", "t", "a", "l">>)>> >>)>>),
    Opt(<<Class({"]"})>>), Opt(<<Class({":"})>>), OptSpaces,
    Group(2, <<Many(Dot, 1, TRUE)>>), Eol(TRUE)>>

\* PATTERNS[type].regex
PATTERNS ==
  [typescript |-> TypescriptRegex, eslint |-> EslintRegex, jest |-> JestRegex,
   python |-> PythonRegex, rust |-> RustRegex, go |-> GoRegex, gcc |-> GccRegex,
   generic |-> GenericRegex]

\* parseInt(digits, 10) of a text of decimal digits
DigitValue(c) == CHOOSE n \in 0..9 : ToString(n) = c

RECURSIVE parseInt(_)
parseInt(digits) ==
  IF digits = <<>> THEN 0
  ELSE 10 * parseInt(SubSeq(digits, 1, Len(digits) - 1))
         + DigitValue(digits[Len(digits)])

\* text || 'unknown'
OrUnknown(text) ==
  IF text # None THEN text ELSE <<"u", "n", "k", "n", "o", "w", "n">>

\* match[1].replace(/^FAIL\s+/, '') of the jest extract
StripFail(text) ==
  Once({IF m.index # 0 THEN SubSeq(text, m.end, Len(text)) ELSE text :
        m \in {exec(<<Bol(FALSE), Lit(<<"F", "A", "I", "L">>), Spaces>>, text, 0)}})

\* A record of parseErrors.  Its texts are sequences of characters, None
\* when the extract sets no such field (or sets it to undefined); line and
\* column are numbers, -1 for none; position counts from 0.  The function
\* field of the python extract, which nothing reads, is left out.
Parsed(kind, file, line, column, code, severity, message, m, s) ==
  [type |-> kind, file |-> file, line |-> line, column |-> column,
   code |-> code, severity |-> severity, message |-> message,
   raw |-> MatchText(m, s), position |-> m.index - 1]

\* PATTERNS[type].extract(match), then raw and position as parseErrors sets
\* them; m is the match and s the text
extract(kind, m, s) ==
  CASE kind = "typescript" ->
         Parsed(kind, MatchGroup(m, s, 1), parseInt(MatchGroup(m, s, 2)),
                parseInt(MatchGroup(m, s, 3)), MatchGroup(m, s, 4), None,
                trim(MatchGroup(m, s, 5)), m, s)
    [] kind = "eslint" ->
         Parsed(kind, OrUnknown(MatchGroup(m, s, 1)), parseInt(MatchGroup(m, s, 2)),
                parseInt(MatchGroup(m, s, 3)), MatchGroup(m, s, 6),
                MatchGroup(m, s, 4), trim(MatchGroup(m, s, 5)), m, s)
    [] kind = "jest" ->
         Parsed(kind, StripFail(MatchGroup(m, s, 1)), -1, -1, None, None,
                IF MatchGroup(m, s, 2) # None THEN MatchGroup(m, s, 2)
                                               ELSE MatchGroup(m, s, 1), m, s)
    [] kind = "python" ->
         Parsed(kind, OrUnknown(MatchGroup(m, s, 1)),
                IF MatchGroup(m, s, 2) # None THEN parseInt(MatchGroup(m, s, 2)) ELSE -1,
                -1, MatchGroup(m, s, 4), None, trim(MatchGroup(m, s, 5)), m, s)
    [] kind = "rust" ->
         Parsed(kind, MatchGroup(m, s, 4), parseInt(MatchGroup(m, s, 5)),
                parseInt(MatchGroup(m, s, 6)), MatchGroup(m, s, 2),
                MatchGroup(m, s, 1), trim(MatchGroup(m, s, 3)), m, s)
    [] kind = "go" ->
         Parsed(kind, MatchGroup(m, s, 1), parseInt(MatchGroup(m, s, 2)),
                parseInt(MatchGroup(m, s, 3)), None, None,
                trim(MatchGroup(m, s, 4)), m, s)
    [] kind = "gcc" ->
         Parsed(kind, MatchGroup(m, s, 1), parseInt(MatchGroup(m, s, 2)),
                parseInt(MatchGroup(m, s, 3)), None, MatchGroup(m, s, 4),
                trim(MatchGroup(m, s, 5)), m, s)
    [] OTHER ->
         Parsed("generic", None, -1, -1, None, toLowerCase(MatchGroup(m, s, 1)),
                trim(MatchGroup(m, s, 2)), m, s)

(***************************************************************************)
(* detectType: the probes in the order of the source                       *)
(***************************************************************************)
\* /error\s+TS\d+:/i
TypescriptProbe ==
  <<LitI(<<"e", "r", "r", "o", "r">>), Spaces, LitI(<<"T", "S">>), Digits,
    Class({":"})>>

\* /\d+:\d+\s+(error|warning)\s+.+\s+\S+$/m
EslintProbe ==
  <<Digits, Class({":"}), Digits, Spaces, Group(1, <<ErrorOrWarning>>), Spaces,
    Many(Dot, 1, TRUE), Spaces, Many(NotClass(SpaceChar), 1, TRUE), Eol(TRUE)>>

\* /^\s*(?:U+25CF|U+2715|U+2716|FAIL\s+)/m
JestProbe ==
  <<Bol(TRUE), OptSpaces,
    Alt(<< <<Class({Bullet})>>, <<Class({Cross})>>, <<Class({HeavyCross})>>,
           <<Lit(<<"F", "A", "I", "L">>), Spaces>> >>)>>

\* /Test Suites?:.*failed/i
JestSummaryProbe ==
  <<LitI(<<"T", "e", "s", "t", " ", "S", "u", "i", "t", "e">>),
    Opt(<<LitI(<<"s">>)>>), Class({":"}), Many(Dot, 0, TRUE),
    LitI(<<"f", "a", "i", "l", "e", "d">>)>>

\* /File\s+".+",\s+line\s+\d+/i
PythonProbe ==
  <<LitI(<<"F", "i", "l", "e">>), Spaces, Class({"\""}), Many(Dot, 1, TRUE),
    Lit(<<"\"", ",">>), Spaces, LitI(<<"l", "i", "n", "e">>), Spaces, Digits>>

\* /\w+Error:|Traceback/i
PythonErrorProbe ==
  <<Alt(<< <<Many(Class(WordChar), 1, TRUE), LitI(<<"E", "r", "r", "o", "r">>),
             Class({":"})>>,
           <<LitI(<<"T", "r", "a", "c", "e", "b", "a", "c", "k">>)>> >>)>>

\* /^(error|warning)\[E\d+\]:/m
RustProbe ==
  <<Bol(TRUE), Group(1, <<ErrorOrWarning>>), Lit(<<"[", "E">>), Digits,
    Lit(<<"]", ":">>)>>

\* /\.go:\d+:\d+:/
GoProbe ==
  <<Lit(<<".", "g", "o", ":">>), Digits, Class({":"}), Digits, Class({":"})>>

\* /\.[ch](pp|xx)?:\d+:\d+:\s*(error|warning):/
GccProbe ==
  <<Class({"."}), Class({"c", "h"}),
    Opt(<<Group(1, <<Alt(<< <<Lit(<<"p", "p">>)>>, <<Lit(<<"x", "x">>)>> >>)>>)>>),
    Class({":"}), Digits, Class({":"}), Digits, Class({":"}), OptSpaces,
    Group(2, <<ErrorOrWarning>>), Class({":"})>>

\* detectType with the Go probe tried before the ESLint one
detectTypeGoFirst(text) ==
  IF test(TypescriptProbe, text) THEN "typescript"
  ELSE IF test(GoProbe, text) THEN "go"
  ELSE IF test(EslintProbe, text) THEN "eslint"
  ELSE IF test(JestProbe, text) \/ test(JestSummaryProbe, text) THEN "jest"
  ELSE IF test(PythonProbe, text) \/ test(PythonErrorProbe, text) THEN "python"
  ELSE IF test(RustProbe, text) THEN "rust"
  ELSE IF test(GccProbe, text) THEN "gcc"
  ELSE "generic"

detectType(text) ==
  IF test(TypescriptProbe, text) THEN "typescript"
  ELSE IF test(EslintProbe, text) THEN "eslint"
  ELSE IF test(JestProbe, text) \/ test(JestSummaryProbe, text) THEN "jest"
  ELSE IF test(PythonProbe, text) \/ test(PythonErrorProbe, text) THEN "python"
  ELSE IF test(RustProbe, text) THEN "rust"
  ELSE IF test(GoProbe, text) THEN "go"
  ELSE IF test(GccProbe, text) THEN "gcc"
  ELSE "generic"

(***************************************************************************)
(* parseErrors                                                             *)
(***************************************************************************)
\* PATTERNS[type] || PATTERNS.generic
PatternOf(kind) ==
  IF kind \in DOMAIN PATTERNS THEN PATTERNS[kind] ELSE PATTERNS.generic

\* the category whose extract goes with PatternOf(kind)
ExtractOf(kind) == IF kind \in DOMAIN PATTERNS THEN kind ELSE "generic"

\* const type = forcedType === 'auto' ? detectType(text) : forcedType
ChosenType(text, forced) ==
  IF forced = "auto" THEN detectType(text) ELSE forced

\* unshift in place of push
unshift(array, e) == <<e>> \o array

\* errors.push(error)
push(array, e) == Append(array, e)

\* a lastIndex that stays at the start of the match
LastIndexAtStart(m) == m.index - 1

\* lastIndex after exec has matched m: the index after the match, from 0
LastIndexAfter(m) == m.end - 1

\* lastIndex of every regex of PATTERNS when the module is loaded
NewLastIndex == [k \in DOMAIN PATTERNS |-> 0]

\* a lastIndex that exec leaves where it was when it finds no match
LastIndexKept(last) == last

\* lastIndex after exec has found no match
LastIndexAtNull(last) == 0

\* no retry with the generic pattern
ShouldRetryNever(array, kind) == FALSE

\* errors.length === 0 && type !== 'generic'
ShouldRetry(array, kind) == Len(array) = 0 /\ kind # "generic"

\* the while loop of parseErrors from lastIndex last on, array being errors
RECURSIVE ScanLoop(_, _, _, _)
ScanLoop(kind, s, last, array) ==
  Once({IF m.index = 0 THEN array
        ELSE ScanLoop(kind, s, LastIndexAfter(m),
                      push(array, extract(ExtractOf(kind), m, s))) :
        m \in {exec(PatternOf(kind), s, last)}})

\* parseErrors as a whole; the inner call has type generic and does not
\* call again
parseErrors(text, forced) ==
  Once({IF ShouldRetry(found[2], found[1])
          THEN ScanLoop("generic", text, 0, <<>>) ELSE found[2] :
        found \in {Once({<<kind, ScanLoop(kind, text, 0, <<>>)>> :
                         kind \in {ChosenType(text, forced)}})}})

(***************************************************************************)
(* groupErrors.  A record is [message, code, file, type, severity,         *)
(* position]; the Map of the source, which iterates in insertion order, is *)
(* the sequence of its values in insertion order.                          *)
(***************************************************************************)
\* NewGroup with new Set([error.file]) whatever error.file is
NewGroupAnyFile(e, signature) ==
  [signature |-> signature, count |-> 1, errors |-> <<e>>,
   files |-> {e.file},
   representative |-> e, code |-> e.code, type |-> e.type,
   severity |-> e.severity]

NewGroup(e, signature) ==
  [signature |-> signature, count |-> 1, errors |-> <<e>>,
   files |-> IF e.file # Absent THEN {e.file} ELSE {},
   representative |-> e, code |-> e.code, type |-> e.type,
   severity |-> e.severity]

\* AddToGroup without the count++
AddToGroupNoCount(group, e) ==
  [group EXCEPT !.errors = Append(@, e),
                !.files = IF e.file # Absent /\ e.file \notin @
                            THEN @ \cup {e.file} ELSE @]

AddToGroup(group, e) ==
  [group EXCEPT !.count = @ + 1,
                !.errors = Append(@, e),
                !.files = IF e.file # Absent /\ e.file \notin @
                            THEN @ \cup {e.file} ELSE @]

\* the for loop of groupErrors from record i on; map is the Map so far
RECURSIVE GroupLoop(_, _, _)
GroupLoop(errs, i, map) ==
  IF i > Len(errs) THEN map
  ELSE Once({GroupLoop(errs, i + 1, next) :
         next \in {IF \E k \in 1..Len(map) : map[k].signature = signature
                     THEN LET k == CHOOSE k \in 1..Len(map) :
                                     map[k].signature = signature
                          IN [map EXCEPT ![k] = AddToGroup(@, errs[i])]
                     ELSE Append(map, NewGroup(errs[i], signature)) :
         signature \in {getErrorSignature(errs[i])}}})

\* one step of a stable sort with the comparator (a, b) => b.count - a.count:
\* g goes behind every element that does not compare after it
\* InsertByCount with g put before the elements it ties with
InsertBeforeTies(sorted, g) ==
  LET n == Cardinality({k \in 1..Len(sorted) : sorted[k].count > g.count})
  IN SubSeq(sorted, 1, n) \o <<g>> \o SubSeq(sorted, n + 1, Len(sorted))

InsertByCount(sorted, g) ==
  LET n == Cardinality({k \in 1..Len(sorted) : sorted[k].count >= g.count})
  IN SubSeq(sorted, 1, n) \o <<g>> \o SubSeq(sorted, n + 1, Len(sorted))

RECURSIVE SortFrom(_, _, _)
SortFrom(seq, i, sorted) ==
  IF i > Len(seq) THEN sorted
  ELSE Once({SortFrom(seq, i + 1, next) : next \in {InsertByCount(sorted, seq[i])}})

\* Array.prototype.sort((a, b) => b.count - a.count), which is stable
SortByCountDesc(seq) == Once({SortFrom(array, 1, <<>>) : array \in {seq}})

\* slice(0, n - 1) in place of slice(0, n)
SliceTopShort(seq, n) == SubSeq(seq, 1, IF n - 1 < Len(seq) THEN n - 1 ELSE Len(seq))

\* Array.prototype.slice(0, n) for n > 0
SliceTop(seq, n) == SubSeq(seq, 1, IF n < Len(seq) THEN n ELSE Len(seq))

HasTop(o) == "top" \in DOMAIN o /\ o.top # 0

groupErrors(errs, o) ==
  Once({IF HasTop(o) /\ o.top > 0 THEN SliceTop(result, o.top) ELSE result :
        result \in {SortByCountDesc(GroupLoop(errs, 1, <<>>))}})

(***************************************************************************)
(* similarity.  A JavaScript number that is a quotient of two small        *)
(* integers is the pair <<numerator, denominator>>; two such quotients     *)
(* compare as doubles the way they compare as rationals.                   *)
(***************************************************************************)
Abs(x) == IF x < 0 THEN -x ELSE x

Max(x, y) == IF x > y THEN x ELSE y

\* String.prototype.split(/\W+/) from index i on
RECURSIVE SplitNonWord(_, _)
SplitNonWord(s, i) ==
  LET e == RunEnd(s, i, WordChar)
      piece == SubSeq(s, i, e - 1)
  IN IF e > Len(s) THEN <<piece>>
     ELSE <<piece>> \o SplitNonWord(s, RunEndNot(s, e, WordChar))

\* TokenSet without the toLowerCase
TokenSetCaseSensitive(str) ==
  Range(SelectSeq(SplitNonWord(str, 1), LAMBDA t : t # <<>>))

\* new Set(str.toLowerCase().split(/\W+/).filter(Boolean))
TokenSet(str) ==
  Range(SelectSeq(SplitNonWord(toLowerCase(str), 1), LAMBDA t : t # <<>>))

\* similarity with len1 - len2 in place of Math.abs(len1 - len2)
similarityOneSided(a, b) ==
  IF a = b THEN <<1, 1>>
  ELSE IF a = <<>> \/ b = <<>> THEN <<0, 1>>
  ELSE IF 2 * (Len(a) - Len(b)) > Max(Len(a), Len(b)) THEN <<0, 1>>
  ELSE LET tokens1 == TokenSet(a)
           tokens2 == TokenSet(b)
           intersection == Cardinality({t \in tokens1 : t \in tokens2})
           union == Cardinality(tokens1) + Cardinality(tokens2) - intersection
       IN IF union = 0 THEN <<0, 1>> ELSE <<intersection, union>>

similarity(a, b) ==
  IF a = b THEN <<1, 1>>
  ELSE IF a = <<>> \/ b = <<>> THEN <<0, 1>>
  ELSE IF 2 * Abs(Len(a) - Len(b)) > Max(Len(a), Len(b)) THEN <<0, 1>>
  ELSE LET tokens1 == TokenSet(a)
           tokens2 == TokenSet(b)
           intersection == Cardinality({t \in tokens1 : t \in tokens2})
           union == Cardinality(tokens1) + Cardinality(tokens2) - intersection
       IN IF union = 0 THEN <<0, 1>> ELSE <<intersection, union>>

\* x >= y for two quotients with positive denominators
AtLeast(x, y) == x[1] * y[2] >= y[1] * x[2]

(***************************************************************************)
(* mergeSimilarGroups                                                      *)
(***************************************************************************)
\* the inner loop with the counts of absorbed groups dropped
RECURSIVE AbsorbLoopNoCount(_, _, _, _, _)
AbsorbLoopNoCount(gs, t, group, used, j) ==
  IF j > Len(gs) THEN <<group, used>>
  ELSE IF j \in used THEN AbsorbLoopNoCount(gs, t, group, used, j + 1)
  ELSE IF AtLeast(similarity(group.signature, gs[j].signature), t)
    THEN Once({AbsorbLoopNoCount(gs, t, next, used \cup {j}, j + 1) :
           next \in {[group EXCEPT !.errors = @ \o gs[j].errors,
                                   !.files = @ \cup gs[j].files]}})
  ELSE AbsorbLoopNoCount(gs, t, group, used, j + 1)

\* the inner loop of a transitive clustering: later groups are compared
\* with the anchor and with every group absorbed so far
RECURSIVE AbsorbLoopChained(_, _, _, _, _)
AbsorbLoopChained(gs, t, group, used, j) ==
  IF j > Len(gs) THEN <<group, used>>
  ELSE IF j \in used THEN AbsorbLoopChained(gs, t, group, used, j + 1)
  ELSE IF \E e \in Range(group.errors) :
            AtLeast(similarity(getErrorSignature(e), gs[j].signature), t)
    THEN Once({AbsorbLoopChained(gs, t, next, used \cup {j}, j + 1) :
           next \in {[group EXCEPT !.count = @ + gs[j].count,
                                   !.errors = @ \o gs[j].errors,
                                   !.files = @ \cup gs[j].files]}})
  ELSE AbsorbLoopChained(gs, t, group, used, j + 1)

\* the inner loop from j on: <<group, used>> after it
RECURSIVE AbsorbLoop(_, _, _, _, _)
AbsorbLoop(gs, t, group, used, j) ==
  IF j > Len(gs) THEN <<group, used>>
  ELSE IF j \in used THEN AbsorbLoop(gs, t, group, used, j + 1)
  ELSE IF AtLeast(similarity(group.signature, gs[j].signature), t)
    THEN Once({AbsorbLoop(gs, t, next, used \cup {j}, j + 1) :
           next \in {[group EXCEPT !.count = @ + gs[j].count,
                                   !.errors = @ \o gs[j].errors,
                                   !.files = @ \cup gs[j].files]}})
  ELSE AbsorbLoop(gs, t, group, used, j + 1)

\* the outer loop from i on: the merged array after it
RECURSIVE MergeLoop(_, _, _, _, _)
MergeLoop(gs, t, i, used, out) ==
  IF i > Len(gs) THEN out
  ELSE IF i \in used THEN MergeLoop(gs, t, i + 1, used, out)
  ELSE Once({Once({MergeLoop(gs, t, i + 1, r[2] \cup {i}, next) :
                     next \in {Append(out, r[1])}}) :
               r \in {AbsorbLoop(gs, t, gs[i], used, i + 1)}})

mergeSimilarGroups(gs, t) == SortByCountDesc(MergeLoop(gs, t, 1, {}, <<>>))

(***************************************************************************)
(* getStats.  An object used as a table (byType, bySeverity, codeCounts)   *)
(* is the sequence of its [key, count] in the order the keys were added.   *)
(* No key drawn here is the name of a property of Object.prototype.        *)
(***************************************************************************)
\* value || fallback for a text that may be absent
OrDefaultAsIs(value, fallback) == value

OrDefault(value, fallback) == IF value = Absent THEN fallback ELSE value

\* table[key] = (table[key] || 0) + 1
Bump(table, key) ==
  IF \E k \in DOMAIN table : table[k].key = key
    THEN [k \in DOMAIN table |->
            IF table[k].key = key
              THEN [table[k] EXCEPT !.count = @ + 1] ELSE table[k]]
    ELSE Append(table, [key |-> key, count |-> 1])

\* the most digits of an integer key drawn here; every canonical numeric
\* string of so few digits is below 2^32 - 1
MaxIndexDigits == 9

\* key is an integer index: a canonical numeric string
IsArrayIndex(key) ==
  /\ Len(key) \in 1..MaxIndexDigits
  /\ \A k \in DOMAIN key : key[k] \in Digit
  /\ (key[1] # "0" \/ Len(key) = 1)

\* Object.entries: the integer keys in ascending order, then the other
\* keys in the order they were added
entries(table) ==
  LET ints == {k \in DOMAIN table : IsArrayIndex(table[k].key)}
      Place(k) ==
        IF k \in ints
          THEN 1 + Cardinality({j \in ints :
                                  parseInt(table[j].key) < parseInt(table[k].key)})
          ELSE Cardinality(ints) + 1
                 + Cardinality({j \in (DOMAIN table) \ ints : j < k})
  IN [p \in DOMAIN table |-> table[CHOOSE k \in DOMAIN table : Place(k) = p]]

\* topCode before any code was seen (null)
NoTopCode == [code |-> None, count |-> 0]

\* the loop of lines 150-155 over the entries es from entry i on
RECURSIVE TopLoop(_, _, _, _)
TopLoop(es, i, maxCount, topCode) ==
  IF i > Len(es) THEN topCode
  ELSE IF es[i].count > maxCount
         THEN TopLoop(es, i + 1, es[i].count,
                      [code |-> es[i].key, count |-> es[i].count])
         ELSE TopLoop(es, i + 1, maxCount, topCode)

\* the loop of lines 130-144 from record i on; acc is [filesAffected,
\* byType, bySeverity, codeCounts] so far
RECURSIVE StatsLoop(_, _, _)
StatsLoop(allErrors, i, acc) ==
  IF i > Len(allErrors) THEN acc
  ELSE Once({StatsLoop(allErrors, i + 1, next) :
         next \in {[filesAffected |->
                      IF e.file # Absent THEN acc.filesAffected \cup {e.file}
                                         ELSE acc.filesAffected,
                    byType |-> Bump(acc.byType, OrDefault(e.type, "unknown")),
                    bySeverity |->
                      Bump(acc.bySeverity, OrDefault(e.severity, "error")),
                    codeCounts |->
                      IF e.code # None THEN Bump(acc.codeCounts, e.code)
                                       ELSE acc.codeCounts] :
                   e \in {allErrors[i]}}})

getStats(gs, allErrors) ==
  Once({[totalErrors |-> Len(allErrors),
         uniquePatterns |-> Len(gs),
         filesAffected |-> Cardinality(acc.filesAffected),
         byType |-> acc.byType,
         bySeverity |-> acc.bySeverity,
         topCode |-> TopLoop(entries(acc.codeCounts), 1, 0, NoTopCode)] :
        acc \in {StatsLoop(allErrors, 1,
                           [filesAffected |-> {}, byType |-> <<>>,
                            bySeverity |-> <<>>, codeCounts |-> <<>>])}})

(***************************************************************************)
(* Inputs.  Strings are put together from fragments that make the cases of *)
(* the patterns happen within the bounds.                                  *)
(***************************************************************************)
\* all concatenations of at most n elements of the sequence of strings frags
RECURSIVE Concats(_, _)
Concats(frags, n) ==
  IF n = 0 THEN {<<>>}
  ELSE LET shorter == Concats(frags, n - 1)
       IN shorter \cup {c \o frags[k] : c \in shorter, k \in DOMAIN frags}

Rec(message, code, file, severity, position) ==
  [message |-> message, code |-> code, file |-> file, type |-> "typescript",
   severity |-> severity, position |-> position]

NoRecord == Rec(None, None, Absent, Absent, 0)

\* ---- one call of getErrorSignature, and a second one on its result ----
MaxFrags == 3

SigFrags ==
  << <<"'">>, <<"/", "a">>, <<"l", "i", "n", "e">>, <<"5">>,
     <<":", "1", ":", "2">>, <<" ">>, <<"x">>, <<"1", "2", "3", "4", "5">>,
     <<"0", "x", "1", "f">>, <<"C", ":", "\\", "a">>, <<"\"">> >>

SigCodes == {None, <<"E", "1">>}

IdleSig == error = NoRecord /\ sig = None /\ sig2 = None

IdleGroup ==
  /\ errors = <<>> /\ opts = <<>> /\ groups = <<>>
  /\ threshold = <<0, 1>> /\ merged = <<>>

IdleParse ==
  /\ input = <<>> /\ forcedType = "auto" /\ type = ""
  /\ lastIndex = NewLastIndex /\ calls = 0
  /\ scans = 0 /\ detected = ""

IdleStats == stats = <<>> /\ argTop = None /\ exitCode = -1

IdleSim == str1 = None /\ str2 = None /\ sim = <<0, 1>> /\ simRev = <<0, 1>>

InitSig ==
  /\ pc = "start"
  /\ error \in {Rec(m, c, Absent, Absent, 0) :
                  m \in Concats(SigFrags, MaxFrags), c \in SigCodes}
  /\ sig = None /\ sig2 = None
  /\ IdleGroup /\ IdleSim /\ IdleParse /\ IdleStats

CallGetErrorSignature ==
  /\ pc = "start"
  /\ sig' = getErrorSignature(error)
  /\ pc' = "signed"
  /\ UNCHANGED <<error, sig2, errors, opts, groups, threshold, merged,
                 str1, str2, sim, simRev>>
  /\ UNCHANGED <<input, forcedType, type, lastIndex, scans, detected, stats, argTop,
                 exitCode, calls>>

\* the signature is processed a second time, as the message of the record
CallOnSignature ==
  /\ pc = "signed"
  /\ sig2' = getErrorSignature([error EXCEPT !.message = sig])
  /\ pc' = "resigned"
  /\ UNCHANGED <<error, sig, errors, opts, groups, threshold, merged,
                 str1, str2, sim, simRev>>
  /\ UNCHANGED <<input, forcedType, type, lastIndex, scans, detected, stats, argTop,
                 exitCode, calls>>

NextSig == CallGetErrorSignature \/ CallOnSignature

SpecSig == InitSig /\ [][NextSig]_vars

\* ---- similarity of two strings, called with the arguments both ways ----
MaxSimFrags == 3

SimFrags == << <<"a">>, <<"A">>, <<"b">>, <<" ">> >>

InitSim ==
  /\ pc = "start"
  /\ str1 \in Concats(SimFrags, MaxSimFrags)
  /\ str2 \in Concats(SimFrags, MaxSimFrags)
  /\ sim = <<0, 1>> /\ simRev = <<0, 1>>
  /\ IdleSig /\ IdleGroup /\ IdleParse /\ IdleStats

CallSimilarity ==
  /\ pc = "start"
  /\ sim' = similarity(str1, str2)
  /\ pc' = "compared"
  /\ UNCHANGED <<error, sig, sig2, errors, opts, groups, threshold, merged,
                 str1, str2, simRev>>
  /\ UNCHANGED <<input, forcedType, type, lastIndex, scans, detected, stats, argTop,
                 exitCode, calls>>

CallSimilaritySwapped ==
  /\ pc = "compared"
  /\ simRev' = similarity(str2, str1)
  /\ pc' = "swapped"
  /\ UNCHANGED <<error, sig, sig2, errors, opts, groups, threshold, merged,
                 str1, str2, sim>>
  /\ UNCHANGED <<input, forcedType, type, lastIndex, scans, detected, stats, argTop,
                 exitCode, calls>>

NextSim == CallSimilarity \/ CallSimilaritySwapped

SpecSim == InitSim /\ [][NextSim]_vars

\* ---- groupErrors on a record sequence, then mergeSimilarGroups; and ----
\* ---- mergeSimilarGroups on groups that a caller built itself        ----
MaxErrors == 3

\* what the records are drawn from; the signatures of the first two are
\* equal, those of the next three are x y, x y z and y z, and the last has
\* the signature of the first with the file of the first and another severity
Pool ==
  << Rec(<<"n", "o", " ", "'", "a", "'">>, <<"E", "1">>, "a.ts", "error", 0),
     Rec(<<"n", "o", " ", "'", "b", "'">>, <<"E", "1">>, "b.ts", "error", 0),
     Rec(<<"x", " ", "y">>, None, "a.ts", Absent, 0),
     Rec(<<"x", " ", "y", " ", "z">>, None, Absent, "warning", 0),
     Rec(<<"y", " ", "z">>, None, "b.ts", "error", 0),
     Rec(<<"n", "o", " ", "'", "c", "'">>, <<"E", "1">>, "a.ts", "warning", 0) >>

\* records number k of the pool, found at position i of the input
Placed(picks) == [i \in DOMAIN picks |-> [Pool[picks[i]] EXCEPT !.position = i]]

SeqsUpTo(S, n) == UNION {[1..m -> S] : m \in 0..n}

MaxTop == 2

NoOpts == <<>>

OptsSet == {NoOpts} \cup {[top |-> n] : n \in 0..MaxTop}

\* 0.5 and the default 0.8
Thresholds == {<<1, 2>>, <<4, 5>>}

InitErrors ==
  /\ pc = "start"
  /\ errors \in {Placed(picks) : picks \in SeqsUpTo(DOMAIN Pool, MaxErrors)}
  /\ opts \in OptsSet
  /\ groups = <<>> /\ threshold = <<0, 1>> /\ merged = <<>>
  /\ IdleSig /\ IdleSim /\ IdleParse /\ IdleStats

MaxGroups == 3

\* the member counts given groups are drawn with
GivenCounts == {1, 2}

MergeSigs ==
  << <<"x", " ", "y">>, <<"x", " ", "y", " ", "z">>, <<"y", " ", "z">>, <<>> >>

MergeFiles == <<"a.ts", "b.ts">>

\* a group a caller built: count records of one signature, all of one file
GivenGroup(k, s, n) ==
  LET file == MergeFiles[(k % 2) + 1]
      members == [m \in 1..n |-> Rec(MergeSigs[s], None, file, "error", 10 * k + m)]
  IN [signature |-> MergeSigs[s], count |-> n, errors |-> members,
      files |-> {file}, representative |-> members[1], code |-> None,
      type |-> "typescript", severity |-> "error"]

InitGroups ==
  /\ pc = "given"
  /\ errors = <<>> /\ opts = NoOpts
  /\ groups \in {[k \in DOMAIN shape |-> GivenGroup(k, shape[k][1], shape[k][2])] :
                   shape \in SeqsUpTo((DOMAIN MergeSigs) \X GivenCounts, MaxGroups)}
  /\ threshold = <<0, 1>> /\ merged = <<>>
  /\ IdleSig /\ IdleSim /\ IdleParse /\ IdleStats

Init == InitErrors \/ InitGroups

GroupErrors ==
  /\ pc = "start"
  /\ groups' = groupErrors(errors, opts)
  /\ pc' = "grouped"
  /\ UNCHANGED <<error, sig, sig2, errors, opts, threshold, merged,
                 str1, str2, sim, simRev>>
  /\ UNCHANGED <<input, forcedType, type, lastIndex, scans, detected, stats, argTop,
                 exitCode, calls>>

MergeSimilarGroups ==
  /\ pc \in {"grouped", "given"}
  /\ \E t \in Thresholds :
       /\ threshold' = t
       /\ merged' = mergeSimilarGroups(groups, t)
  /\ pc' = "merged"
  /\ UNCHANGED <<error, sig, sig2, errors, opts, groups,
                 str1, str2, sim, simRev>>
  /\ UNCHANGED <<input, forcedType, type, lastIndex, scans, detected, stats, argTop,
                 exitCode, calls>>

Next == GroupErrors \/ MergeSimilarGroups

Spec == Init /\ [][Next]_vars

\* ---- detectType on an input, and parseErrors on it, one exec of the ----
\* ---- while loop at a time                                            ----
MaxLines == 2

\* the lines inputs are made of: one diagnostic of every tool or a part of
\* one, a line no pattern knows, and the empty line
Lines ==
  << <<"a", "(", "1", ",", "2", ")", ":", " ", "e", "r", "r", "o", "r", " ",
       "T", "S", "1", ":", " ", "x">>,
     <<"1", ":", "2", " ", "e", "r", "r", "o", "r", " ", "x", " ", "r">>,
     <<Bullet, " ", "s", " ", Chevron, " ", "t">>,
     <<"F", "A", "I", "L", " ", "a">>,
     <<"F", "i", "l", "e", " ", "\"", "a", "\"", ",", " ", "l", "i", "n", "e", " ", "1">>,
     <<" ", "K", "e", "y", "E", "r", "r", "o", "r", ":", " ", "k">>,
     <<"e", "r", "r", "o", "r", "[", "E", "1", "]", ":", " ", "x", "\n",
       " ", "-", "-", ">", " ", "a", ":", "1", ":", "2">>,
     <<"a", ".", "g", "o", ":", "1", ":", "2", ":", " ", "x">>,
     <<"a", ".", "c", ":", "1", ":", "2", ":", " ", "e", "r", "r", "o", "r", ":", " ", "x">>,
     <<"[", "E", "R", "R", "]", ":", " ", "y">>,
     <<"o", "k">>,
     <<>> >>

\* the lines ls joined with line feeds
RECURSIVE JoinLines(_)
JoinLines(ls) ==
  IF Len(ls) = 0 THEN <<>>
  ELSE IF Len(ls) = 1 THEN ls[1]
  ELSE ls[1] \o <<"\n">> \o JoinLines(Tail(ls))

Categories ==
  {"typescript", "eslint", "jest", "python", "rust", "go", "gcc", "generic"}

\* what callers pass as forcedType: auto, a category, or a name PATTERNS
\* does not have
ForcedTypes == Categories \cup {"auto", "tsc"}

InitParse ==
  /\ pc = "start"
  /\ input \in {JoinLines([k \in DOMAIN ls |-> Lines[ls[k]]]) :
                  ls \in SeqsUpTo(DOMAIN Lines, MaxLines)}
  /\ forcedType \in ForcedTypes
  /\ type = "" /\ lastIndex = NewLastIndex /\ calls = 0
  /\ scans = 0 /\ detected = ""
  /\ IdleSig /\ IdleGroup /\ IdleSim /\ IdleStats

CallDetectType ==
  /\ pc = "start"
  /\ detected' = detectType(input)
  /\ pc' = "detected"
  /\ UNCHANGED <<input, forcedType, type, lastIndex, scans>>
  /\ UNCHANGED <<error, sig, sig2, errors, opts, groups, threshold, merged,
                 str1, str2, sim, simRev, stats, argTop, exitCode,
                 calls>>

\* parseErrors is entered: lines 410 to 417
CallParseErrors ==
  /\ pc = "start"
  /\ \E kind \in {ChosenType(input, forcedType)} :
       /\ type' = kind
       /\ lastIndex' = [lastIndex EXCEPT ![ExtractOf(kind)] = 0]
  /\ errors' = <<>>
  /\ scans' = 1
  /\ calls' = calls + 1
  /\ pc' = "scanning"
  /\ UNCHANGED <<input, forcedType, detected>>
  /\ UNCHANGED <<error, sig, sig2, opts, groups, threshold, merged,
                 str1, str2, sim, simRev, stats, argTop, exitCode>>

\* one turn of the while loop: exec finds a match, the record is pushed
ExecMatch ==
  /\ pc = "scanning"
  /\ \E m \in {exec(PatternOf(type), input, lastIndex[ExtractOf(type)])} :
       /\ m.index # 0
       /\ errors' = push(errors, extract(ExtractOf(type), m, input))
       /\ lastIndex' = [lastIndex EXCEPT ![ExtractOf(type)] = LastIndexAfter(m)]
  /\ UNCHANGED <<pc, input, forcedType, type, scans, detected>>
  /\ UNCHANGED <<error, sig, sig2, opts, groups, threshold, merged,
                 str1, str2, sim, simRev, stats, argTop, exitCode,
                 calls>>

\* exec returns null and nothing was found with a pattern that is not the
\* generic one: parseErrors(input, 'generic') is entered
ExecNullRetry ==
  /\ pc = "scanning"
  /\ exec(PatternOf(type), input, lastIndex[ExtractOf(type)]).index = 0
  /\ ShouldRetry(errors, type)
  /\ type' = "generic"
  /\ errors' = <<>>
  /\ lastIndex' = [lastIndex EXCEPT ![ExtractOf(type)] = LastIndexAtNull(@),
                                    !.generic = 0]
  /\ scans' = scans + 1
  /\ UNCHANGED <<pc, input, forcedType, detected>>
  /\ UNCHANGED <<error, sig, sig2, opts, groups, threshold, merged,
                 str1, str2, sim, simRev, stats, argTop, exitCode,
                 calls>>

\* exec returns null and errors is returned
ExecNullReturn ==
  /\ pc = "scanning"
  /\ exec(PatternOf(type), input, lastIndex[ExtractOf(type)]).index = 0
  /\ ~ ShouldRetry(errors, type)
  /\ lastIndex' = [lastIndex EXCEPT ![ExtractOf(type)] = LastIndexAtNull(@)]
  /\ pc' = "returned"
  /\ UNCHANGED <<input, forcedType, type, scans, detected, errors>>
  /\ UNCHANGED <<error, sig, sig2, opts, groups, threshold, merged,
                 str1, str2, sim, simRev, stats, argTop, exitCode,
                 calls>>

NextParse ==
  \/ CallDetectType
  \/ CallParseErrors
  \/ ExecMatch
  \/ ExecNullRetry
  \/ ExecNullReturn

SpecParse == InitParse /\ [][NextParse]_vars

\* the loop runs on and parseErrors returns: nothing but the next step of
\* the call can happen
SpecParseFair == SpecParse /\ WF_vars(NextParse)

(***************************************************************************)
(* Calls of parseErrors one after the other in one process, as the tests   *)
(* make them: the regexes of PATTERNS and their lastIndex live on from     *)
(* call to call, the array a call returned does not.                       *)
(***************************************************************************)
MaxCalls == 2

ParseAgain ==
  /\ pc = "returned"
  /\ calls < MaxCalls
  /\ input' \in {JoinLines([k \in DOMAIN ls |-> Lines[ls[k]]]) :
                   ls \in SeqsUpTo(DOMAIN Lines, MaxLines)}
  /\ forcedType' \in ForcedTypes
  /\ type' = "" /\ scans' = 0 /\ detected' = "" /\ errors' = <<>>
  /\ pc' = "start"
  /\ UNCHANGED <<lastIndex, calls>>
  /\ UNCHANGED <<error, sig, sig2, opts, groups, threshold, merged,
                 str1, str2, sim, simRev, stats, argTop, exitCode>>

NextCalls == NextParse \/ ParseAgain

SpecCalls == InitParse /\ [][NextCalls]_vars

\* ---- getStats on a record sequence and on groups of any number ----
MaxStatErrors == 3

MaxStatGroups == 2

\* a record of which getStats reads file, type, severity and code
StatRec(file, kind, severity, code) ==
  [Rec(<<>>, code, file, severity, 0) EXCEPT !.type = kind]

\* what allErrors is drawn from: two codes that are integers and two that
\* are not, records without file, without type, without severity and
\* without code
StatPool ==
  << StatRec("a.ts", "typescript", "error", <<"T", "S", "1">>),
     StatRec("b.ts", "eslint", "warning", <<"2">>),
     StatRec("a.ts", "eslint", Absent, <<"1">>),
     StatRec(Absent, Absent, "error", None),
     StatRec("b.ts", "typescript", Absent, <<"T", "S", "2">>) >>

InitStats ==
  /\ pc = "start"
  /\ errors \in {[i \in DOMAIN picks |-> [StatPool[picks[i]] EXCEPT !.position = i]] :
                   picks \in SeqsUpTo(DOMAIN StatPool, MaxStatErrors)}
  /\ groups \in {[k \in 1..n |-> GivenGroup(k, 1, 1)] : n \in 0..MaxStatGroups}
  /\ opts = NoOpts /\ threshold = <<0, 1>> /\ merged = <<>>
  /\ IdleSig /\ IdleSim /\ IdleParse /\ IdleStats

CallGetStats ==
  /\ pc = "start"
  /\ stats' = getStats(groups, errors)
  /\ pc' = "counted"
  /\ UNCHANGED <<error, sig, sig2, errors, opts, groups, threshold, merged,
                 str1, str2, sim, simRev>>
  /\ UNCHANGED <<input, forcedType, type, lastIndex, scans, detected, argTop, exitCode,
                 calls>>

NextStats == CallGetStats

SpecStats == InitStats /\ [][NextStats]_vars

\* ---- main: the options, parseErrors, groupErrors, formatOutput ----
\* parseInt(text, 10) || fallback: white space and a sign are skipped, the
\* digits that follow are the number, NaN when there are none; NaN and 0
\* give the fallback
parseIntOr(text, fallback) ==
  LET from == RunEnd(text, 1, SpaceChar)
      digitsFrom == IF At(text, from, {"+", "-"}) THEN from + 1 ELSE from
      stop == RunEnd(text, digitsFrom, Digit)
      number == parseInt(SubSeq(text, digitsFrom, stop - 1))
  IN IF stop = digitsFrom \/ number = 0 THEN fallback
     ELSE IF At(text, from, {"-"}) THEN 0 - number ELSE number

\* the top and type of what parseCliArgs returns; top is the text after
\* -n, None when the option is not given, and kind the one after -t
parseCliArgs(top, kind) ==
  [top |-> parseIntOr(IF top = None THEN <<"1", "0">> ELSE top, 10),
   type |-> kind]

\* the texts parsed records of the inputs below carry, as the strings the
\* records of groupErrors and getStats carry
KnownNames == <<"err", "error", "fatal">>

Spelt ==
  << <<"e", "r", "r">>, <<"e", "r", "r", "o", "r">>,
     <<"f", "a", "t", "a", "l">> >>

Name(text) ==
  IF text = None THEN Absent
  ELSE KnownNames[CHOOSE k \in DOMAIN Spelt : Spelt[k] = text]

\* a record of parseErrors as groupErrors and getStats read it
AsRecord(p) ==
  [Rec(p.message, p.code, Name(p.file), Name(p.severity), p.position)
     EXCEPT !.type = p.type]

AsRecords(parsed) ==
  Once({[k \in DOMAIN p |-> Once({AsRecord(q) : q \in {p[k]}})] : p \in {parsed}})

MaxCliLines == 12

\* the number of different messages of the input lines
NumMessages == 11

\* line k of the input: [ERR]: and a one-letter message
CliLine(k) ==
  <<"[", "E", "R", "R", "]", ":", " ", LowerLetters[((k - 1) % NumMessages) + 1]>>

CliInputs ==
  {JoinLines([k \in 1..n |-> CliLine(k)]) : n \in 0..MaxCliLines}
    \cup {<<"o", "k">>, <<" ", "\n">>}

\* what may follow -n
ArgTops == {None, <<"0">>, <<"1">>, <<"3">>, <<"1", "1">>, <<"x">>}

InitCli ==
  /\ pc = "start"
  /\ input \in CliInputs
  /\ argTop \in ArgTops
  /\ forcedType \in {"auto", "generic"}
  /\ type = "" /\ lastIndex = NewLastIndex /\ calls = 0
  /\ scans = 0 /\ detected = ""
  /\ stats = <<>> /\ exitCode = -1
  /\ IdleSig /\ IdleGroup /\ IdleSim

\* main with no input to analyze
MainNoInput ==
  /\ pc = "start"
  /\ trim(input) = <<>>
  /\ opts' = parseCliArgs(argTop, forcedType)
  /\ pc' = "no input"
  /\ exitCode' = 0
  /\ UNCHANGED <<error, sig, sig2, errors, groups, threshold, merged,
                 str1, str2, sim, simRev>>
  /\ UNCHANGED <<input, forcedType, type, lastIndex, scans, detected, stats, argTop,
                 calls>>

\* main with no errors found in the input
MainNoErrors ==
  /\ pc = "start"
  /\ trim(input) # <<>>
  /\ \E o \in {parseCliArgs(argTop, forcedType)} :
       /\ parseErrors(input, o.type) = <<>>
       /\ opts' = o
  /\ pc' = "no errors"
  /\ exitCode' = 0
  /\ UNCHANGED <<error, sig, sig2, errors, groups, threshold, merged,
                 str1, str2, sim, simRev>>
  /\ UNCHANGED <<input, forcedType, type, lastIndex, scans, detected, stats, argTop,
                 calls>>

\* main up to console.log(output); of formatOutput, what every format
\* does first: getStats(groups, allErrors)
MainReport ==
  /\ pc = "start"
  /\ trim(input) # <<>>
  /\ \E o \in {parseCliArgs(argTop, forcedType)} :
       \E found \in {AsRecords(parseErrors(input, o.type))} :
         /\ found # <<>>
         /\ opts' = o
         /\ errors' = found
         /\ \E gs \in {groupErrors(found, o)} :
              /\ groups' = gs
              /\ stats' = getStats(gs, found)
  /\ pc' = "printed"
  /\ UNCHANGED <<error, sig, sig2, threshold, merged, str1, str2, sim, simRev>>
  /\ UNCHANGED <<input, forcedType, type, lastIndex, scans, detected, argTop, exitCode,
                 calls>>

ExitStatusZero(array) == 0

\* the argument of the last process.exit of main
ExitStatus(array) == IF Len(array) > 0 THEN 1 ELSE 0

\* main after console.log(output)
MainExit ==
  /\ pc = "printed"
  /\ exitCode' = ExitStatus(errors)
  /\ pc' = "exited"
  /\ UNCHANGED <<error, sig, sig2, errors, opts, groups, threshold, merged,
                 str1, str2, sim, simRev>>
  /\ UNCHANGED <<input, forcedType, type, lastIndex, scans, detected, stats, argTop,
                 calls>>

NextCli == MainNoInput \/ MainNoErrors \/ MainReport \/ MainExit

SpecCli == InitCli /\ [][NextCli]_vars

\* main is one run of a process: a step that can be taken is taken
SpecCliFair == SpecCli /\ WF_vars(NextCli)

(***************************************************************************)
(* Properties of groupErrors and mergeSimilarGroups, checked under Spec.   *)
(***************************************************************************)
RECURSIVE SumCount(_)
SumCount(seq) == IF seq = <<>> THEN 0 ELSE seq[1].count + SumCount(Tail(seq))

Unlimited(o) == "top" \notin DOMAIN o \/ o.top = 0

\* C1: when groupErrors is called with top absent or 0, the counts of the
\* returned groups add up to the number of input records.
C1_CountsSumToRecords ==
  (pc = "grouped" /\ Unlimited(opts)) => SumCount(groups) = Len(errors)

\* three records in two groups, top unlimited
C1_Witness ==
  /\ pc = "grouped" /\ Unlimited(opts)
  /\ Len(errors) = 3 /\ Len(groups) = 2

\* the input index at which the signature of group g is first seen
FirstSeen(g) ==
  Min({k \in DOMAIN errors : getErrorSignature(errors[k]) = g.signature})

\* the index in groups of the anchor a merged group grew from
AnchorIndex(m) ==
  CHOOSE k \in DOMAIN groups :
    groups[k].errors[1].position = m.errors[1].position

\* seq is ordered by count non-increasing, ties in the order Before gives
CountDescStable(seq, Before(_, _)) ==
  \A i, j \in DOMAIN seq :
    i < j => /\ seq[i].count >= seq[j].count
             /\ seq[i].count = seq[j].count => Before(seq[i], seq[j])

\* C3: what groupErrors and mergeSimilarGroups return is ordered by count
\* non-increasing, and groups of equal count keep the order they had before
\* the sort: first-seen signature order for groupErrors, anchor order for
\* mergeSimilarGroups.
C3_SortedByCountStable ==
  /\ pc = "grouped" =>
       CountDescStable(groups, LAMBDA g, h : FirstSeen(g) < FirstSeen(h))
  /\ pc = "merged" =>
       CountDescStable(merged, LAMBDA g, h : AnchorIndex(g) < AnchorIndex(h))

\* a merged result with a tie in which the sort moved a group forward
C3_Witness ==
  /\ pc = "merged"
  /\ \E i, j \in DOMAIN merged :
       i < j /\ merged[i].count = merged[j].count
  /\ \E i, j \in DOMAIN merged :
       i < j /\ AnchorIndex(merged[i]) > AnchorIndex(merged[j])

DistinctSignatures == {getErrorSignature(errors[k]) : k \in DOMAIN errors}

\* C4: with opts.top a positive integer n, groupErrors returns exactly the
\* first min(n, G) groups of the count-sorted sequence, G the number of
\* distinct signatures of the input; with top 0 or absent it returns all G.
C4_TopTruncates ==
  pc = "grouped" =>
    LET G == Cardinality(DistinctSignatures)
        all == groupErrors(errors, NoOpts)
    IN /\ Len(all) = G
       /\ Len(groups) = IF Unlimited(opts) THEN G
                        ELSE IF opts.top < G THEN opts.top ELSE G
       /\ groups = SubSeq(all, 1, Len(groups))

\* top = 1 cuts a result of three groups
C4_Witness ==
  /\ pc = "grouped" /\ opts = [top |-> 1]
  /\ Cardinality(DistinctSignatures) = 3 /\ Len(groups) = 1

\* C5: the counts of the groups mergeSimilarGroups returns add up to the
\* counts of the groups it was given, whatever the threshold.
C5_MergeKeepsCounts == pc = "merged" => SumCount(merged) = SumCount(groups)

\* a merge that absorbed a group
C5_Witness == pc = "merged" /\ Len(merged) < Len(groups) /\ Len(merged) >= 1

Similar(gs, t, i, j) == AtLeast(similarity(gs[i].signature, gs[j].signature), t)

\* group i is an anchor: no anchor before it is similar to it
RECURSIVE IsAnchor(_, _, _)
IsAnchor(gs, t, i) ==
  \A k \in 1..(i - 1) : IsAnchor(gs, t, k) => ~ Similar(gs, t, k, i)

\* the groups anchor i absorbs: the later groups similar to i that no
\* anchor before i is similar to
AbsorbedBy(gs, t, i) ==
  {j \in (i + 1)..Len(gs) :
     /\ Similar(gs, t, i, j)
     /\ \A k \in 1..(i - 1) : IsAnchor(gs, t, k) => ~ Similar(gs, t, k, j)}

\* fields of the groups of index set S from index j on, in index order
RECURSIVE ErrorsOf(_, _, _)
ErrorsOf(gs, S, j) ==
  IF j > Len(gs) THEN <<>>
  ELSE (IF j \in S THEN gs[j].errors ELSE <<>>) \o ErrorsOf(gs, S, j + 1)

RECURSIVE CountOf(_, _, _)
CountOf(gs, S, j) ==
  IF j > Len(gs) THEN 0
  ELSE (IF j \in S THEN gs[j].count ELSE 0) + CountOf(gs, S, j + 1)

\* the output group of anchor i
GroupOfAnchor(gs, t, i) ==
  LET S == {i} \cup AbsorbedBy(gs, t, i)
  IN [gs[i] EXCEPT !.count = CountOf(gs, S, 1),
                   !.errors = ErrorsOf(gs, S, 1),
                   !.files = UNION {gs[j].files : j \in S}]

\* C6: mergeSimilarGroups is one left-to-right greedy pass: every group not
\* absorbed earlier is an anchor, and the output group of anchor i is group
\* i plus exactly the later, not yet absorbed groups whose signature is
\* similar to that of i (counts summed, errors appended in order, files
\* united); an absorbed group is no anchor and absorbs nothing.
C6_GreedySinglePass ==
  pc = "merged" =>
    LET anchors == {i \in DOMAIN groups : IsAnchor(groups, threshold, i)}
    IN /\ Len(merged) = Cardinality(anchors)
       /\ \A i \in anchors :
            \E n \in DOMAIN merged : merged[n] = GroupOfAnchor(groups, threshold, i)

\* anchor i absorbed j, and a later group k that is similar to j but not to
\* i was left as an anchor of its own
C6_Witness ==
  /\ pc = "merged"
  /\ \E i, j, k \in DOMAIN groups :
       /\ i < j /\ j < k
       /\ IsAnchor(groups, threshold, i)
       /\ j \in AbsorbedBy(groups, threshold, i)
       /\ Similar(groups, threshold, j, k)
       /\ IsAnchor(groups, threshold, k)
       /\ \E n \in DOMAIN merged : merged[n].errors = groups[k].errors

(***************************************************************************)
(* Properties of similarity, checked under SpecSim.                        *)
(***************************************************************************)
\* the lower-cased word tokens of s: the maximal runs of word characters
WordTokens(s) ==
  LET l == toLowerCase(s)
  IN {SubSeq(l, i, j) : <<i, j>> \in
        {w \in (1..Len(l)) \X (1..Len(l)) :
           /\ w[1] <= w[2]
           /\ \A k \in w[1]..w[2] : l[k] \in WordChar
           /\ ~ At(l, w[1] - 1, WordChar)
           /\ ~ At(l, w[2] + 1, WordChar)}}

\* the Jaccard index of two sets, 0 when both are empty
Jaccard(A, B) ==
  IF A \cup B = {} THEN <<0, 1>>
  ELSE <<Cardinality(A \cap B), Cardinality(A \cup B)>>

Longer(a, b) == IF Len(a) >= Len(b) THEN Len(a) ELSE Len(b)

Shorter(a, b) == IF Len(a) >= Len(b) THEN Len(b) ELSE Len(a)

SimilarityByCases(a, b) ==
  IF a = b THEN <<1, 1>>
  ELSE IF a = <<>> \/ b = <<>> THEN <<0, 1>>
  ELSE IF 2 * (Longer(a, b) - Shorter(a, b)) > Longer(a, b) THEN <<0, 1>>
  ELSE Jaccard(WordTokens(a), WordTokens(b))

SameQuotient(x, y) == x[1] * y[2] = y[1] * x[2]

C8_SimilaritySymmetric == pc = "swapped" => sim = simRev

\* strings of different length with a similarity above 0
C8_Witness ==
  /\ pc = "swapped" /\ Len(str1) # Len(str2)
  /\ sim[1] > 0 /\ simRev[1] > 0

(***************************************************************************)
(* Properties of getErrorSignature, checked under SpecSig.                 *)
(***************************************************************************)
\* C9: getErrorSignature is idempotent: for the record with its message
\* replaced by its signature, the other fields kept, getErrorSignature
\* returns the same signature.
C9_SignatureIdempotent == pc = "resigned" => sig2 = sig

\* s without its trailing whitespace
DropTrailingSpace(s) ==
  LET keep == {k \in 1..Len(s) : s[k] \notin SpaceChar}
  IN IF keep = {} THEN <<>>
     ELSE SubSeq(s, 1, CHOOSE x \in keep : \A y \in keep : y <= x)

\* s without its leading whitespace
DropLeadingSpace(s) ==
  LET keep == {k \in 1..Len(s) : s[k] \notin SpaceChar}
  IN IF keep = {} THEN <<>> ELSE SubSeq(s, Min(keep), Len(s))

CodeTag(code) == <<"[">> \o code \o <<"]">>

\* C10 as stated: with a code c the signature is '[c] ' followed by the
\* trimmed normalised message, the trimming done before the code is
\* prepended; without a code it is the trimmed normalised message.
C10_TrimThenPrefix ==
  pc # "start" =>
    LET body == DropLeadingSpace(DropTrailingSpace(Normalise(error.message)))
    IN sig = IF error.code # None
               THEN CodeTag(error.code) \o <<" ">> \o body
               ELSE body

\* C10 as the code has it: the code is prepended first and the whole is
\* trimmed.  With a code c the signature is '[c] ' followed by the
\* normalised message without its trailing whitespace, leading whitespace
\* kept, and '[c]' alone when the normalised message is blank; without a
\* code it is the normalised message trimmed at both ends.
C10_PrefixThenTrim ==
  pc # "start" =>
    LET n == Normalise(error.message)
        tail == DropTrailingSpace(n)
    IN sig = IF error.code = None THEN DropLeadingSpace(tail)
             ELSE IF tail = <<>> THEN CodeTag(error.code)
             ELSE CodeTag(error.code) \o <<" ">> \o tail

\* a record with a code whose normalised message starts with whitespace
\* and is not blank
C10_Witness ==
  /\ pc = "signed" /\ error.code # None
  /\ At(Normalise(error.message), 1, SpaceChar)
  /\ DropTrailingSpace(Normalise(error.message)) # <<>>
  /\ Len(sig) > Len(CodeTag(error.code)) + 1
  /\ sig[Len(CodeTag(error.code)) + 2] \in SpaceChar

\* ---- groupErrors on records whose messages are one text around a ----
\* ---- quoted span, with varying contents of the span              ----
MaxVariants == 2

PairPrefixes ==
  {<<>>, <<"n", "o", " ">>, <<"i", "t", "'", "s", " ">>, <<"/", "a">>}

PairSuffixes == {<<>>, <<".">>, <<"/", "a">>}

PairQuotes == {"'", "\""}

\* the longest content the quoted-span pattern takes
LongName == [k \in 1..MaxNameLen |-> "a"]

PairContents ==
  {<<"a">>, <<"b", " ", "c">>, <<"/", "a">>, <<"/", "b", ".", "c", "/", "d", "-", "1">>,
   <<"c", "o", "l", "1">>, LongName}

InitPair ==
  /\ pc = "start"
  /\ \E p \in PairPrefixes, s \in PairSuffixes, qo \in PairQuotes,
        qc \in PairQuotes, c \in SigCodes :
       errors \in
         {[i \in DOMAIN xs |->
             Rec(p \o <<qo>> \o xs[i] \o <<qc>> \o s, c, Absent, "error", i)] :
            xs \in UNION {[1..m -> PairContents] : m \in 2..MaxVariants}}
  /\ opts = NoOpts
  /\ groups = <<>> /\ threshold = <<0, 1>> /\ merged = <<>>
  /\ IdleSig /\ IdleSim /\ IdleParse /\ IdleStats

NextPair == GroupErrors

SpecPair == InitPair /\ [][NextPair]_vars

(***************************************************************************)
(* Properties of the quoted-span rule, checked under SpecPair.             *)
(***************************************************************************)
\* m[i] and m[j] are quote characters around 1 to 50 non-quote characters
SpanAt(m, i, j) ==
  /\ At(m, i, QuoteChar) /\ At(m, j, QuoteChar)
  /\ j - i - 1 >= 1 /\ j - i - 1 <= MaxNameLen
  /\ \A k \in (i + 1)..(j - 1) : m[k] \notin QuoteChar

\* the index of the closing quote in m when the text from it on has length n
CloseAt(m, n) == Len(m) - n + 1

\* the records have one code, and their messages are one text around a
\* quoted span that opens at index i and closes n characters before the end
SameButSpan(recs, i, n) ==
  \A k \in DOMAIN recs :
    /\ recs[k].code = recs[1].code
    /\ SpanAt(recs[k].message, i, CloseAt(recs[k].message, n))
    /\ SubSeq(recs[k].message, 1, i) = SubSeq(recs[1].message, 1, i)
    /\ SubSeq(recs[k].message, CloseAt(recs[k].message, n), Len(recs[k].message))
         = SubSeq(recs[1].message, CloseAt(recs[1].message, n), Len(recs[1].message))

\* the span is left to the quoted-span rule: its contents hold no slash,
\* backslash or digit, no quote comes before it, and the characters next to
\* its quotes do not make a path with them
SpanLeftAlone(recs, i, n) ==
  \A k \in DOMAIN recs :
    LET m == recs[k].message
        j == CloseAt(m, n)
    IN /\ \A x \in (i + 1)..(j - 1) : m[x] \notin ({"/", "\\"} \cup Digit)
       /\ \A x \in 1..(i - 1) : m[x] \notin QuoteChar
       /\ ~ At(m, i - 1, SegChar)
       /\ ~ At(m, j + 1, Letter \cup {"/"})

OneGroupOfAll ==
  /\ \A k \in DOMAIN errors :
       getErrorSignature(errors[k]) = getErrorSignature(errors[1])
  /\ Len(groups) = 1
  /\ groups[1].count = Len(errors)

Spans(recs) == (1..Len(recs[1].message)) \X (1..Len(recs[1].message))

\* C2 as stated: records with the same code whose messages differ only in
\* the content of a quoted span (1 to 50 non-quote characters between two
\* quote characters) have one signature, and groupErrors puts them in one
\* group whose count is their number.
C2_QuotedSpanCollapses ==
  (pc = "grouped" /\ \E w \in Spans(errors) : SameButSpan(errors, w[1], w[2]))
    => OneGroupOfAll

\* C2 for the spans the quoted-span rule gets to see: the same, provided
\* the contents hold no slash, backslash or digit, no quote character comes
\* before the span, the character before the opening quote is no path
\* character (letter, digit, underscore, dot, hyphen) and the character
\* after the closing quote is neither a slash nor a letter.
C2_PlainSpanCollapses ==
  (/\ pc = "grouped"
   /\ \E w \in Spans(errors) :
        SameButSpan(errors, w[1], w[2]) /\ SpanLeftAlone(errors, w[1], w[2]))
    => OneGroupOfAll

\* two different messages of that kind in one group, the quotes of the span
\* of different kinds
C2_Witness ==
  /\ pc = "grouped"
  /\ \E w \in Spans(errors) :
       /\ SameButSpan(errors, w[1], w[2]) /\ SpanLeftAlone(errors, w[1], w[2])
       /\ errors[1].message[w[1]]
            # errors[1].message[CloseAt(errors[1].message, w[2])]
  /\ errors[1].message # errors[2].message
  /\ Len(groups) = 1 /\ groups[1].count = 2

(***************************************************************************)
(* Paths go before quoted spans, checked under SpecPair.                   *)
(***************************************************************************)
\* c is a POSIX absolute path as the path pattern reads one: a run of
\* /segment with segments of letters, digits, underscore, dot and hyphen
IsPosixPath(c) == c # <<>> /\ PosixSegsEnd(c, 1) = Len(c) + 1

\* the span of every record that opens at i and closes n before the end is
\* a POSIX absolute path between two quote characters
PathSpan(recs, i, n) ==
  \A k \in DOMAIN recs :
    IsPosixPath(SubSeq(recs[k].message, i + 1, CloseAt(recs[k].message, n) - 1))

\* no quote character in the messages but the two of the span
NoOtherQuote(recs, i, n) ==
  \A k \in DOMAIN recs :
    \A x \in DOMAIN recs[k].message :
      (x # i /\ x # CloseAt(recs[k].message, n)) => recs[k].message[x] \notin QuoteChar

\* tok occurs in s
Contains(s, tok) ==
  \E k \in 1..(Len(s) - Len(tok) + 1) : SubSeq(s, k, k + Len(tok) - 1) = tok

RECURSIVE ScanFrom(_, _, _)
ScanFrom(kind, s, last) ==
  LET m == exec(PatternOf(kind), s, last)
  IN IF m.index = 0 THEN <<>>
     ELSE <<extract(ExtractOf(kind), m, s)>> \o ScanFrom(kind, s, m.end - 1)

Scan(kind, s) == ScanFrom(kind, s, 0)

\* C12: when the scan with the chosen category (forced, or detected under
\* auto) finds nothing and the category is not generic, parseErrors returns
\* what the scan with the generic pattern returns, otherwise what the scan
\* with the chosen category returns; the records returned have one type,
\* the chosen category or generic.
C12_GenericFallback ==
  pc = "returned" =>
    LET chosen == ChosenType(input, forcedType)
    IN /\ errors = IF Scan(chosen, input) = <<>> /\ chosen # "generic"
                     THEN Scan("generic", input) ELSE Scan(chosen, input)
       /\ \A k \in DOMAIN errors :
            errors[k].type = errors[1].type /\ errors[k].type \in {chosen, "generic"}

\* a forced category that finds nothing, and records of the generic scan
C12_Witness ==
  /\ pc = "returned"
  /\ forcedType \in Categories \ {"generic"}
  /\ Scan(forcedType, input) = <<>>
  /\ errors # <<>> /\ errors[1].type = "generic"

\* the categories in the order of their probes
ProbeOrder == <<"typescript", "eslint", "jest", "python", "rust", "go", "gcc">>

\* the probe of a category matches the text
ProbeMatches(kind, s) ==
  CASE kind = "typescript" -> test(TypescriptProbe, s)
    [] kind = "eslint" -> test(EslintProbe, s)
    [] kind = "jest" -> test(JestProbe, s) \/ test(JestSummaryProbe, s)
    [] kind = "python" -> test(PythonProbe, s) \/ test(PythonErrorProbe, s)
    [] kind = "rust" -> test(RustProbe, s)
    [] kind = "go" -> test(GoProbe, s)
    [] kind = "gcc" -> test(GccProbe, s)

\* C13: detectType returns the first category, in the order typescript,
\* eslint, jest, python, rust, go, gcc, whose probe matches the input, and
\* generic when none matches.
C13_FirstProbeWins ==
  pc = "detected" =>
    LET hits == {k \in DOMAIN ProbeOrder : ProbeMatches(ProbeOrder[k], input)}
    IN /\ detected \in Categories
       /\ detected = IF hits = {} THEN "generic" ELSE ProbeOrder[Min(hits)]

\* an input that the probes of two categories match, classified by the
\* earlier one
C13_Witness ==
  /\ pc = "detected"
  /\ \E j, k \in DOMAIN ProbeOrder :
       /\ j < k /\ detected = ProbeOrder[j]
       /\ ProbeMatches(ProbeOrder[k], input)

\* no pattern that parseErrors may use for the input matches anywhere
NoDiagnostic ==
  /\ exec(PatternOf(ChosenType(input, forcedType)), input, 0).index = 0
  /\ exec(PATTERNS.generic, input, 0).index = 0

\* C14: parseErrors returns for every input and every forcedType: each
\* turn of the loop moves lastIndex forward, parseErrors is entered at most
\* twice (once more with generic), and the call returns; an input with no
\* diagnostic line gives the empty sequence.
C14_ParseTerminates ==
  /\ [](scans <= 2)
  /\ [][(pc = "scanning" /\ pc' = "scanning" /\ scans' = scans)
          => lastIndex'[ExtractOf(type)] > lastIndex[ExtractOf(type)]]_vars
  /\ [](pc = "scanning" => <>(pc = "returned"))
  /\ []((pc = "returned" /\ NoDiagnostic) => errors = <<>>)

\* the call has returned after a second scan that went round the loop
\* more than once
C14_Witness ==
  pc = "returned" /\ scans = 2 /\ Len(errors) >= 2

\* C15: the records are in the order of their matches in the text, and
\* the matches do not overlap: every record starts at or after the end of
\* the raw text of the one before, and raw is the text at position.
C15_TextualOrder ==
  pc \in {"scanning", "returned"} =>
    /\ \A k \in DOMAIN errors :
         /\ errors[k].raw # <<>>
         /\ errors[k].raw = SubSeq(input, errors[k].position + 1,
                                   errors[k].position + Len(errors[k].raw))
    /\ \A k \in 1..(Len(errors) - 1) :
         /\ errors[k + 1].position > errors[k].position
         /\ errors[k + 1].position >= errors[k].position + Len(errors[k].raw)

\* two records of different lines returned
C15_Witness ==
  /\ pc = "returned" /\ Len(errors) >= 2
  /\ errors[1].raw # errors[2].raw

(***************************************************************************)
(* The groups of groupErrors, checked under Spec.                          *)
(***************************************************************************)
\* the records of errs with signature s, in the order of errs
WithSignature(errs, s) ==
  LET Same(e) == getErrorSignature(e) = s IN SelectSeq(errs, Same)

\* C16: in every group groupErrors returns, errors is the records of the
\* input with the signature of the group in input order, count is their
\* number and at least 1, files is the set of their files that are not
\* absent, representative is the first of them, and code, type and
\* severity are those of the representative.
C16_GroupShape ==
  pc = "grouped" =>
    \A k \in DOMAIN groups :
      LET g == groups[k]
          members == WithSignature(errors, g.signature)
      IN /\ g.errors = members
         /\ g.count = Len(members) /\ g.count >= 1
         /\ g.files = {members[m].file : m \in DOMAIN members} \ {Absent}
         /\ g.representative = members[1]
         /\ g.code = g.representative.code
         /\ g.type = g.representative.type
         /\ g.severity = g.representative.severity

\* a group of three records of two files, one of them with another
\* severity than the first
C16_Witness ==
  /\ pc = "grouped"
  /\ \E k \in DOMAIN groups :
       /\ groups[k].count = 3 /\ Cardinality(groups[k].files) = 2
       /\ \E m \in DOMAIN groups[k].errors :
            groups[k].errors[m].severity # groups[k].severity

(***************************************************************************)
(* Properties of getStats, checked under SpecStats.                        *)
(***************************************************************************)
\* what table has for key, 0 when it has nothing
CountIn(table, key) ==
  IF \E k \in DOMAIN table : table[k].key = key
    THEN table[CHOOSE k \in DOMAIN table : table[k].key = key].count
    ELSE 0

RECURSIVE SumOf(_)
SumOf(table) == IF table = <<>> THEN 0 ELSE table[1].count + SumOf(Tail(table))

\* table counts, of the records of errors, those that Key maps to each key
IsFrequencyTable(table, Key(_)) ==
  /\ \A j, k \in DOMAIN table : table[j].key = table[k].key => j = k
  /\ \A k \in DOMAIN table :
       /\ table[k].count >= 1
       /\ table[k].count =
            Cardinality({m \in DOMAIN errors : Key(errors[m]) = table[k].key})
  /\ \A m \in DOMAIN errors : CountIn(table, Key(errors[m])) >= 1

TypeOrUnknown(e) == IF e.type = Absent THEN "unknown" ELSE e.type

SeverityOrError(e) == IF e.severity = Absent THEN "error" ELSE e.severity

\* C17: getStats returns totalErrors = the number of records and
\* uniquePatterns = the number of groups; filesAffected = the number of
\* distinct files of the records that are not absent, whatever groups is;
\* byType and bySeverity count the records by type and by severity, a
\* missing type as unknown and a missing severity as error, so the counts
\* of each table add up to totalErrors.
C17_StatsCounts ==
  pc = "counted" =>
    /\ stats.totalErrors = Len(errors)
    /\ stats.uniquePatterns = Len(groups)
    /\ stats.filesAffected =
         Cardinality({errors[m].file : m \in DOMAIN errors} \ {Absent})
    /\ IsFrequencyTable(stats.byType, TypeOrUnknown)
    /\ IsFrequencyTable(stats.bySeverity, SeverityOrError)
    /\ SumOf(stats.byType) = stats.totalErrors
    /\ SumOf(stats.bySeverity) = stats.totalErrors

\* records without type and without severity, files of records that are
\* in no group
C17_Witness ==
  /\ pc = "counted" /\ groups = <<>>
  /\ stats.filesAffected = 2
  /\ CountIn(stats.byType, "unknown") = 1
  /\ CountIn(stats.bySeverity, "error") = 2
  /\ \E m \in DOMAIN errors : errors[m].severity = Absent

\* the number of records with code c, and the first of them
Frequency(c) == Cardinality({m \in DOMAIN errors : errors[m].code = c})

FirstOccurrence(c) == Min({m \in DOMAIN errors : errors[m].code = c})

\* C18: topCode is null when no record has a code; otherwise it names a
\* code of the greatest frequency among the records that have one, with
\* that frequency as count, and of the codes of that frequency the one
\* whose first occurrence is the earliest.
C18_TopCodeFirstOfTies ==
  pc = "counted" =>
    LET codes == {errors[m].code : m \in DOMAIN errors} \ {None}
    IN IF codes = {} THEN stats.topCode = NoTopCode
       ELSE /\ stats.topCode.code \in codes
            /\ stats.topCode.count = Frequency(stats.topCode.code)
            /\ \A c \in codes :
                 /\ Frequency(c) <= stats.topCode.count
                 /\ Frequency(c) = stats.topCode.count =>
                      FirstOccurrence(stats.topCode.code) <= FirstOccurrence(c)

(***************************************************************************)
(* Properties of the command-line tool, checked under SpecCli.             *)
(***************************************************************************)
\* the signatures of the records parsed
Signatures == {getErrorSignature(errors[k]) : k \in DOMAIN errors}

\* C19: with --top 0 every group is shown: the groups handed to
\* formatOutput are as many as the records have signatures.
C19_TopZeroShowsAll ==
  (pc = "printed" /\ argTop = <<"0">>) => Len(groups) = Cardinality(Signatures)

\* C20: the number of patterns of the summary is the number of signatures
\* of the records parsed, whatever top lets through.
C20_PatternsAreSignatures ==
  pc = "printed" => stats.uniquePatterns = Cardinality(Signatures)

(***************************************************************************)
(* The representative after merging, checked under Spec.                   *)
(***************************************************************************)
\* the places in the input of the records of group g
Positions(g) == {g.errors[m].position : m \in DOMAIN g.errors}

\* C22: in every group mergeSimilarGroups returns for the groups of
\* groupErrors, representative is the record of the group that comes first
\* in the input.
C22_RepresentativeIsEarliest ==
  (pc = "merged" /\ errors # <<>>) =>
    \A k \in DOMAIN merged :
      /\ merged[k].representative.position \in Positions(merged[k])
      /\ \A q \in Positions(merged[k]) : merged[k].representative.position <= q

(***************************************************************************)
(* The exit code of the command-line tool, checked under SpecCliFair.      *)
(***************************************************************************)
\* the input is empty or parsing it yields no record
NothingFound ==
  \/ trim(input) = <<>>
  \/ parseErrors(input, parseCliArgs(argTop, forcedType).type) = <<>>

\* C21: the tool exits, with code 0 when the input is empty or parsing
\* yields no record and with code 1 when parsing yields a record, and the
\* exit with code 1 comes after the summary was printed.
C21_ExitCodes ==
  /\ <>(exitCode # -1)
  /\ [](exitCode # -1 => exitCode = IF NothingFound THEN 0 ELSE 1)
  /\ [][exitCode' = 1 => (pc = "printed" /\ stats # <<>>)]_vars

C21_Witness == pc = "exited" /\ exitCode = 1 /\ stats # <<>>

(***************************************************************************)
(* parseErrors from call to call, checked under SpecCalls.                 *)
(***************************************************************************)
\* C23: whatever calls of parseErrors came before, a call returns the
\* records a first call returns for its input and category: lastIndex of
\* the pattern is 0 when a scan starts, and lastIndex of every pattern is
\* 0 when the call has returned.
C23_DeterministicAcrossCalls ==
  /\ [](pc = "returned" => errors = parseErrors(input, forcedType))
  /\ [](pc = "returned" => lastIndex = NewLastIndex)
  /\ [][(scans' # scans /\ pc' = "scanning")
          => lastIndex'[ExtractOf(type')] = 0]_vars

\* a second call has returned records found by the generic pattern after
\* the pattern of its category found none
C23_Witness ==
  pc = "returned" /\ calls = 2 /\ scans = 2 /\ Len(errors) >= 2

=============================================================================
